---- MODULE Spec2Model ----
(***************************************************************************)
(* Model of the duplicate-folder analysis of PhotoManager                  *)
(* (src/duplicateanalyzer.cpp, src/duplicateanalyzer.h).                   *)
(*                                                                         *)
(* Conventions                                                             *)
(*  - A path is a sequence of names, a name is a natural number: the       *)
(*    directory "/1/1" is <<1, 1>>, and a path relative to a base is the   *)
(*    suffix left after the base (QDir::relativeFilePath).                 *)
(*  - A partial hash is a natural number, NoHash being the empty QString.  *)
(*  - A double similarity is the exact fraction [num, den]; the doubles    *)
(*    the code computes are quotients of two small ints, for which         *)
(*    comparison with 0.90 and qRound agree with the exact arithmetic.     *)
(*  - A content key "WxH_S" / "WxH_S_hash" is the tuple <<W, H, S>> /      *)
(*    <<W, H, S, hash>>: the QString formatting is injective on integers.  *)
(***************************************************************************)
EXTENDS Integers, Sequences, FiniteSets, TLC

VARIABLES
    fsExists,               \* [Dirs -> BOOLEAN]: the directory is on disk
    fsFiles,                \* [Dirs -> [names -> File]]: files directly in a directory
    fsModTime,              \* [Dirs -> Int]: QFileInfo::lastModified of a directory
    now,                    \* the wall clock, in seconds
    fsOps,                  \* history: number of changes made to the filesystem
    cacheFile,              \* the persisted ".folder_analysis_cache"
    m_projectFolders,       \* FolderManager::m_projectFolders, the configured roots
    emitted,                \* the signals emitted since the last run was started
    m_folderContentCache,   \* QHash<QString, FolderContent>
    m_duplicateIssues,      \* QList<DuplicateIssue>
    m_currentMode,          \* ComparisonMode
    m_analysisRunning,      \* bool
    m_totalFilesToAnalyze,  \* int
    m_filesAnalyzed,        \* int
    pc,                     \* position of the analyzer's control
    projectFolders,         \* QStringList projectFolders of the loop in progress
    loopI, loopJ,           \* loop indices of the run in progress
    probe,                  \* history: what the last operation observed, until the next step
    cacheMeta,              \* history: per cache entry, the scan that produced it
    lastCompare,            \* history: the operands of the last compareFolders call
    runNo,                  \* history: number of runs started
    pairLog,                \* history: category reported per pair in the run in progress
    quickRun,               \* history: pairLog of the last completed Quick run
    lastDone                \* history: mode and pairLog of the last completed run

vars == << fsExists, fsFiles, fsModTime, now, fsOps, cacheFile, m_projectFolders,
           emitted, m_folderContentCache,
           m_duplicateIssues, m_currentMode, m_analysisRunning,
           m_totalFilesToAnalyze, m_filesAnalyzed, pc, projectFolders, loopI, loopJ, probe,
           cacheMeta, lastCompare, runNo, pairLog, quickRun, lastDone >>

----------------------------------------------------------------------------
(* Generic helpers *)

Range(s) == { s[i] : i \in 1..Len(s) }

Min(a, b) == IF a <= b THEN a ELSE b

Max(a, b) == IF a >= b THEN a ELSE b

NoDup(s) == \A i, j \in 1..Len(s) : i /= j => s[i] /= s[j]

\* Number of positions of s holding x.
Count(s, x) == Cardinality({ i \in 1..Len(s) : s[i] = x })

\* s and t hold the same elements the same number of times.
SameBag(s, t) == \A x \in Range(s) \cup Range(t) : Count(s, x) = Count(t, x)

RECURSIVE SumSeq(_)
SumSeq(s) == IF s = <<>> THEN 0 ELSE Head(s) + SumSeq(Tail(s))

\* QString::operator< on paths and keys: a total order (lexicographic here);
\* the code only compares sorted lists for equality, which any total order decides alike.
RECURSIVE SeqLess(_, _)
SeqLess(a, b) ==
    IF a = <<>> THEN b /= <<>>
    ELSE IF b = <<>> THEN FALSE
    ELSE IF Head(a) /= Head(b) THEN Head(a) < Head(b)
    ELSE SeqLess(Tail(a), Tail(b))

RECURSIVE InsertSorted(_, _)
InsertSorted(x, s) ==
    IF s = <<>> THEN <<x>>
    ELSE IF SeqLess(Head(s), x) THEN <<Head(s)>> \o InsertSorted(x, Tail(s))
    ELSE <<x>> \o s

\* QStringList::sort()
RECURSIVE sort(_)
sort(s) == IF s = <<>> THEN <<>> ELSE InsertSorted(Head(s), sort(Tail(s)))

----------------------------------------------------------------------------
(* Data model *)

Quick == "Quick"
Deep == "Deep"
Modes == { Quick, Deep }

ExactComplete == "ExactComplete"
ExactFilesOnly == "ExactFilesOnly"
PartialDuplicate == "PartialDuplicate"

SEVERITY_HIGH == "High"
SEVERITY_MEDIUM == "Medium"
SEVERITY_LOW == "Low"

\* The empty QString a FileInfo holds when no partial hash was computed.
NoHash == 0

\* PARTIAL_DUPLICATE_THRESHOLD = 0.90, as the fraction ThresholdNum / ThresholdDen.
ThresholdNum == 90
ThresholdDen == 100

\* struct FileInfo
MkFileInfo(size, w, h, hash) ==
    [fileSize |-> size, imageWidth |-> w, imageHeight |-> h, partialHash |-> hash]

\* QHash::value(key) of a missing key: a value-initialised FileInfo.
DefaultFileInfo == MkFileInfo(0, 0, 0, NoHash)

\* struct FolderContent, as analyzeFolderContent starts it.
EmptyContent ==
    [allFiles |-> <<>>, allSubfolders |-> <<>>, fileInfo |-> <<>>, totalSize |-> 0]

\* content.fileInfo.value(path)
ValueOf(content, path) ==
    IF path \in DOMAIN content.fileInfo THEN content.fileInfo[path] ELSE DefaultFileInfo

----------------------------------------------------------------------------
(* Classification engine *)

\* The Deep signature string without the file size.
ContentKey_DeepWithoutSize(info, mode) ==
    IF mode = Deep
    THEN << info.imageWidth, info.imageHeight, info.partialHash >>
    ELSE << info.imageWidth, info.imageHeight, info.fileSize >>

\* The signature string built in isExactFilesOnlyDuplicate and calculateFileSimilarity.
ContentKey(info, mode) ==
    IF mode = Deep
    THEN << info.imageWidth, info.imageHeight, info.fileSize, info.partialHash >>
    ELSE << info.imageWidth, info.imageHeight, info.fileSize >>

areFilesIdentical_HashInQuick(file1, file2, mode) ==
    /\ file1.fileSize = file2.fileSize
    /\ file1.imageWidth = file2.imageWidth
    /\ file1.imageHeight = file2.imageHeight
    /\ mode = Quick => file1.partialHash = file2.partialHash

areFilesIdentical_NoWidth(file1, file2, mode) ==
    /\ file1.fileSize = file2.fileSize
    /\ file1.imageHeight = file2.imageHeight
    /\ mode = Deep => file1.partialHash = file2.partialHash

areFilesIdentical(file1, file2, mode) ==
    IF \/ file1.fileSize /= file2.fileSize
       \/ file1.imageWidth /= file2.imageWidth
       \/ file1.imageHeight /= file2.imageHeight
    THEN FALSE
    ELSE IF mode = Deep /\ file1.partialHash /= file2.partialHash
    THEN FALSE
    ELSE TRUE

isExactCompleteDuplicate(folder1, folder2, mode) ==
    IF \/ Len(folder1.allFiles) /= Len(folder2.allFiles)
       \/ Len(folder1.allSubfolders) /= Len(folder2.allSubfolders)
    THEN FALSE
    ELSE LET files1 == sort(folder1.allFiles)
             files2 == sort(folder2.allFiles)
         IN  IF files1 /= files2 THEN FALSE
             ELSE IF \E i \in 1..Len(files1) :
                        ~areFilesIdentical(ValueOf(folder1, files1[i]),
                                           ValueOf(folder2, files1[i]), mode)
             THEN FALSE
             ELSE sort(folder1.allSubfolders) = sort(folder2.allSubfolders)

\* QMultiMap::keys(): every key, repeated as often as it was inserted, ascending.
SignatureKeys(folder, mode) ==
    sort([ i \in 1..Len(folder.allFiles) |->
             ContentKey(ValueOf(folder, folder.allFiles[i]), mode) ])

\* QSet of the signatures of a folder.
SignatureSet(folder, mode) ==
    { ContentKey(ValueOf(folder, folder.allFiles[i]), mode) : i \in 1..Len(folder.allFiles) }

isExactFilesOnlyDuplicate_UniqueKeys(folder1, folder2, mode) ==
    /\ Len(folder1.allFiles) = Len(folder2.allFiles)
    /\ SignatureSet(folder1, mode) = SignatureSet(folder2, mode)
    /\ folder1.allFiles /= <<>>

isExactFilesOnlyDuplicate(folder1, folder2, mode) ==
    IF Len(folder1.allFiles) /= Len(folder2.allFiles) THEN FALSE
    ELSE /\ SignatureKeys(folder1, mode) = SignatureKeys(folder2, mode)
         /\ SignatureKeys(folder1, mode) /= <<>>

Ratio(n, d) == [num |-> n, den |-> d]

calculateFileSimilarity_OverFirst(folder1, folder2, mode) ==
    IF folder1.allFiles = <<>> /\ folder2.allFiles = <<>> THEN Ratio(1, 1)
    ELSE IF folder1.allFiles = <<>> \/ folder2.allFiles = <<>> THEN Ratio(0, 1)
    ELSE Ratio(Cardinality(SignatureSet(folder1, mode) \cap SignatureSet(folder2, mode)),
               Cardinality(SignatureSet(folder1, mode)))

calculateFileSimilarity_OverLarger(folder1, folder2, mode) ==
    IF folder1.allFiles = <<>> /\ folder2.allFiles = <<>> THEN Ratio(1, 1)
    ELSE IF folder1.allFiles = <<>> \/ folder2.allFiles = <<>> THEN Ratio(0, 1)
    ELSE Ratio(Cardinality(SignatureSet(folder1, mode) \cap SignatureSet(folder2, mode)),
               Max(Cardinality(SignatureSet(folder1, mode)),
                   Cardinality(SignatureSet(folder2, mode))))

\* calculateFileSimilarity without the test for one empty folder.
calculateFileSimilarity_EmptyIsFull(folder1, folder2, mode) ==
    IF folder1.allFiles = <<>> \/ folder2.allFiles = <<>> THEN Ratio(1, 1)
    ELSE LET signatures1 == SignatureSet(folder1, mode)
             signatures2 == SignatureSet(folder2, mode)
         IN  Ratio(Cardinality(signatures1 \cap signatures2),
                   Cardinality(signatures1 \cup signatures2))

calculateFileSimilarity(folder1, folder2, mode) ==
    IF folder1.allFiles = <<>> /\ folder2.allFiles = <<>> THEN Ratio(1, 1)
    ELSE IF folder1.allFiles = <<>> \/ folder2.allFiles = <<>> THEN Ratio(0, 1)
    ELSE LET signatures1 == SignatureSet(folder1, mode)
             signatures2 == SignatureSet(folder2, mode)
             intersection == signatures1 \cap signatures2
             unionSet == signatures1 \cup signatures2
         IN  IF unionSet = {} THEN Ratio(0, 1)
             ELSE Ratio(Cardinality(intersection), Cardinality(unionSet))

\* qRound(r * x) for a fraction r >= 0 and an integer x >= 0: int(d + 0.5).
qRound(r, x) == (2 * r.num * x + r.den) \div (2 * r.den)

\* similarity >= PARTIAL_DUPLICATE_THRESHOLD
ReachesThreshold_Strict(r) == r.num * ThresholdDen > ThresholdNum * r.den

ReachesThreshold(r) == r.num * ThresholdDen >= ThresholdNum * r.den

MkIssue(type, folder1, folder2, similarity, total, dup, wasted, severity) ==
    [type |-> type, primaryFolder |-> folder1, duplicateFolder |-> folder2,
     similarity |-> similarity, totalFiles |-> total, duplicateFiles |-> dup,
     wastedSpace |-> wasted, severity |-> severity]

\* compareFolders from line 534 on: the issues appended for two contents.
ClassifyPair_PartialFirst(folder1, folder2, content1, content2, mode) ==
    LET similarity == calculateFileSimilarity(content1, content2, mode)
        total == Max(Len(content1.allFiles), Len(content2.allFiles))
    IN  IF content1.allFiles = <<>> /\ content2.allFiles = <<>> THEN <<>>
        ELSE IF ReachesThreshold(similarity)
        THEN << MkIssue(PartialDuplicate, folder1, folder2, similarity, total,
                        qRound(similarity, total),
                        qRound(similarity, Min(content1.totalSize, content2.totalSize)),
                        SEVERITY_LOW) >>
        ELSE <<>>

ClassifyPair(folder1, folder2, content1, content2, mode) ==
    IF content1.allFiles = <<>> /\ content2.allFiles = <<>> THEN <<>>
    ELSE IF isExactCompleteDuplicate(content1, content2, mode)
    THEN << MkIssue(ExactComplete, folder1, folder2, Ratio(1, 1),
                    Len(content1.allFiles), Len(content1.allFiles),
                    Min(content1.totalSize, content2.totalSize), SEVERITY_HIGH) >>
    ELSE IF isExactFilesOnlyDuplicate(content1, content2, mode)
    THEN << MkIssue(ExactFilesOnly, folder1, folder2, Ratio(1, 1),
                    Len(content1.allFiles), Len(content1.allFiles),
                    Min(content1.totalSize, content2.totalSize), SEVERITY_MEDIUM) >>
    ELSE LET similarity == calculateFileSimilarity(content1, content2, mode)
             total == Max(Len(content1.allFiles), Len(content2.allFiles))
         IN  IF ReachesThreshold(similarity)
             THEN << MkIssue(PartialDuplicate, folder1, folder2, similarity, total,
                             qRound(similarity, total),
                             qRound(similarity, Min(content1.totalSize, content2.totalSize)),
                             SEVERITY_LOW) >>
             ELSE <<>>

----------------------------------------------------------------------------
(* Filesystem, as the analyzer reads it through QDir and QFileInfo *)

\* The name of a hidden entry (on Unix, a name that begins with a dot):
\* QDir::entryList leaves hidden entries out unless QDir::Hidden is given.
HiddenName == 0

\* The names a directory entry can carry.
EntryNames == { HiddenName, 1, 2 }

\* The directories of a project as the runs find it: two project roots, the
\* first with a subfolder.
BaseDirs == { <<1>>, <<1, 1>>, <<2>> }

\* Directories that exist only where a specification creates them: a folder
\* on the third level and a hidden folder.
DeepDirs == { <<1, 1, 1>>, <<1, HiddenName>> }

\* Every directory path of the model.
Dirs == BaseDirs \cup DeepDirs

\* FolderManager::getAllFolderPaths(): the configured top-level folders.
TopLevelFolders == << <<1>>, <<2>> >>

\* QDateTime(): lastModified() of a directory that does not exist.
InvalidTime == -1

SUPPORTED_EXTENSIONS ==
    { "jpg", "jpeg", "png", "bmp", "gif", "tiff", "tif", "webp", "raw", "cr2", "nef", "arw" }

\* QString::toLower() on the suffixes the model's files carry.
toLower(suffix) == IF suffix = "JPG" THEN "jpg" ELSE suffix

\* A file on disk: its suffix, size, pixel dimensions, and `bytes`, the content
\* of the window calculatePartialHash reads.
MkFile(suffix, size, w, h, bytes) ==
    [suffix |-> suffix, size |-> size, width |-> w, height |-> h, bytes |-> bytes]

\* QDir::exists()
DirExists(d) == d \in Dirs /\ fsExists[d]

\* QFileInfo::lastModified() of a directory
lastModified(d) == IF DirExists(d) THEN fsModTime[d] ELSE InvalidTime

RECURSIVE SortedNames(_)
SortedNames(S) ==
    IF S = {} THEN <<>>
    ELSE LET m == CHOOSE x \in S : \A y \in S : x <= y
         IN  <<m>> \o SortedNames(S \ {m})

\* dir.entryList(QDir::Files, QDir::Name)
FileNames(d) == SortedNames(DOMAIN fsFiles[d] \ { HiddenName })

\* dir.entryList(QDir::Dirs | QDir::NoDotAndDotDot, QDir::Name)
SubDirNames(d) ==
    SortedNames({ n \in EntryNames \ { HiddenName } :
                    (d \o <<n>>) \in Dirs /\ fsExists[d \o <<n>>] })

\* A path taken relative to the directory that directly holds the entry.
getRelativePath_ToParent(fullPath, basePath) == << fullPath[Len(fullPath)] >>

\* QDir(basePath).relativeFilePath(fullPath), for fullPath under basePath
getRelativePath(fullPath, basePath) == SubSeq(fullPath, Len(basePath) + 1, Len(fullPath))

\* MD5 over the bytes read, taken as injective: the digest names the bytes.
calculatePartialHash(file) == file.bytes

analyzeFile(file, mode) ==
    MkFileInfo(file.size, file.width, file.height,
               IF mode = Deep THEN calculatePartialHash(file) ELSE NoHash)

\* The file loop leaving totalSize alone.
ScanFile_NoSize(folderPath, basePath, fileName, content, mode) ==
    LET file == fsFiles[folderPath][fileName]
        relativePath == getRelativePath(folderPath \o <<fileName>>, basePath)
        info == analyzeFile(file, mode)
    IN  IF toLower(file.suffix) \in SUPPORTED_EXTENSIONS
        THEN [content EXCEPT
                !.allFiles = Append(@, relativePath),
                !.fileInfo = [p \in DOMAIN @ \cup {relativePath} |->
                                IF p = relativePath THEN info ELSE @[p]]]
        ELSE content

\* One iteration of the file loop of scanFolderRecursive (lines 638-665).
ScanFile(folderPath, basePath, fileName, content, mode) ==
    LET file == fsFiles[folderPath][fileName]
        relativePath == getRelativePath(folderPath \o <<fileName>>, basePath)
        info == analyzeFile(file, mode)
    IN  IF toLower(file.suffix) \in SUPPORTED_EXTENSIONS
        THEN [content EXCEPT
                !.allFiles = Append(@, relativePath),
                !.fileInfo = [p \in DOMAIN @ \cup {relativePath} |->
                                IF p = relativePath THEN info ELSE @[p]],
                !.totalSize = @ + info.fileSize]
        ELSE content

RECURSIVE ScanFileList(_, _, _, _, _)
ScanFileList(folderPath, basePath, names, content, mode) ==
    IF names = <<>> THEN content
    ELSE ScanFileList(folderPath, basePath, Tail(names),
                      ScanFile(folderPath, basePath, Head(names), content, mode), mode)

RECURSIVE scanFolderRecursive(_, _, _, _)
RECURSIVE ScanSubDirList(_, _, _, _, _)
ScanSubDirList(folderPath, basePath, names, content, mode) ==
    IF names = <<>> THEN content
    ELSE LET subDirPath == folderPath \o <<Head(names)>>
             withDir == [content EXCEPT
                           !.allSubfolders = Append(@, getRelativePath(subDirPath, basePath))]
         IN  ScanSubDirList(folderPath, basePath, Tail(names),
                            scanFolderRecursive(subDirPath, basePath, withDir, mode), mode)

scanFolderRecursive(folderPath, basePath, content, mode) ==
    IF ~DirExists(folderPath) THEN content
    ELSE ScanSubDirList(folderPath, basePath, SubDirNames(folderPath),
                        ScanFileList(folderPath, basePath, FileNames(folderPath),
                                     content, mode),
                        mode)

analyzeFolderContent(folderPath, mode) ==
    IF ~DirExists(folderPath) THEN EmptyContent
    ELSE scanFolderRecursive(folderPath, folderPath, EmptyContent, mode)

RECURSIVE countFilesInFolder(_)
RECURSIVE CountSubDirs(_, _)
CountSubDirs(folderPath, names) ==
    IF names = <<>> THEN 0
    ELSE countFilesInFolder(folderPath \o <<Head(names)>>)
         + CountSubDirs(folderPath, Tail(names))

countFilesInFolder(folderPath) ==
    IF ~DirExists(folderPath) THEN 0
    ELSE Cardinality({ n \in Range(FileNames(folderPath)) :
                         toLower(fsFiles[folderPath][n].suffix) \in SUPPORTED_EXTENSIONS })
         + CountSubDirs(folderPath, SubDirNames(folderPath))

RECURSIVE collectSubfoldersRecursive(_, _)
RECURSIVE CollectSubDirList(_, _, _)
CollectSubDirList(parentPath, names, folderList) ==
    IF names = <<>> THEN folderList
    ELSE LET subDirPath == parentPath \o <<Head(names)>>
         IN  CollectSubDirList(parentPath, Tail(names),
                               collectSubfoldersRecursive(subDirPath,
                                                          Append(folderList, subDirPath)))

collectSubfoldersRecursive(parentPath, folderList) ==
    IF ~DirExists(parentPath) THEN folderList
    ELSE CollectSubDirList(parentPath, SubDirNames(parentPath), folderList)

RECURSIVE CollectTopLevel(_, _)
CollectTopLevel(topLevelFolders, allFolders) ==
    IF topLevelFolders = <<>> THEN allFolders
    ELSE CollectTopLevel(Tail(topLevelFolders),
                         collectSubfoldersRecursive(Head(topLevelFolders),
                                                    Append(allFolders, Head(topLevelFolders))))

getProjectFolders == CollectTopLevel(m_projectFolders, <<>>)

----------------------------------------------------------------------------
(* compareFolders *)

\* m_folderContentCache[folder] = content
Put(cache, folder, content) ==
    [f \in DOMAIN cache \cup {folder} |-> IF f = folder THEN content ELSE cache[f]]

\* Lines 523-529: the cache after the two operands were fetched or scanned.
FillCache(cache, folder1, folder2, mode) ==
    LET cache1 == IF folder1 \in DOMAIN cache THEN cache
                  ELSE Put(cache, folder1, analyzeFolderContent(folder1, mode))
    IN  IF folder2 \in DOMAIN cache1 THEN cache1
        ELSE Put(cache1, folder2, analyzeFolderContent(folder2, mode))

\* The folders compareFolders scans, in order.
Scanned(cache, folder1, folder2) ==
    IF folder1 = folder2 THEN <<>>
    ELSE SelectSeq(<<folder1, folder2>>, LAMBDA f : f \notin DOMAIN cache)

\* compareFolders putting a new issue in front of the result list.
compareFolders_Prepend(cache, issues, folder1, folder2, mode) ==
    IF folder1 = folder2 THEN [cache |-> cache, issues |-> issues]
    ELSE LET filled == FillCache(cache, folder1, folder2, mode)
         IN  [cache |-> filled,
              issues |-> ClassifyPair(folder1, folder2,
                                      filled[folder1], filled[folder2], mode) \o issues]

\* compareFolders: the cache and the result list it leaves.
compareFolders(cache, issues, folder1, folder2, mode) ==
    IF folder1 = folder2 THEN [cache |-> cache, issues |-> issues]
    ELSE LET filled == FillCache(cache, folder1, folder2, mode)
         IN  [cache |-> filled,
              issues |-> issues \o ClassifyPair(folder1, folder2,
                                                filled[folder1], filled[folder2], mode)]

----------------------------------------------------------------------------
(* Values of the variables a specification does not use *)

NoFile == [kind |-> "none"]
NoProbe == [kind |-> "none"]
NoCompare == [kind |-> "none"]
NoRun == [kind |-> "none"]

----------------------------------------------------------------------------
(* SpecClassify: the classification engine applied to pairs of folder contents *)

\* Largest key of the wide contents, whose files all carry different keys.
MaxWide == 10

\* How far the two ends of a wide content may lie from 1 and from MaxWide.
WideSlack == 2

\* A content as a scan builds it: unique paths, one signature per path, the sizes summed.
MkContent(files, subfolders, info) ==
    [allFiles |-> files, allSubfolders |-> subfolders, fileInfo |-> info,
     totalSize |-> SumSeq([ i \in 1..Len(files) |-> info[files[i]].fileSize ])]

\* Signatures that differ from the first in one field each, and one without a hash.
SmallSignatures ==
    { MkFileInfo(1, 1, 1, 1), MkFileInfo(2, 1, 1, 1), MkFileInfo(1, 2, 1, 1),
      MkFileInfo(1, 1, 2, 1), MkFileInfo(1, 1, 1, 2), MkFileInfo(1, 1, 1, NoHash) }

SmallFileLists == { <<>>, << <<1>> >>, << <<2>> >>, << <<1>>, <<2>> >>, << <<2>>, <<1>> >> }

\* Up to two files, every assignment of signatures, no subfolder.
SmallContents ==
    UNION { { MkContent(files, <<>>, info) : info \in [Range(files) -> SmallSignatures] } :
            files \in SmallFileLists }

SubfolderLists ==
    { <<>>, << <<7>> >>, << <<8>> >>, << <<7>>, <<8>> >>, << <<8>>, <<7>> >> }

\* At most one file, every list of subfolders.
SubfolderContents ==
    { MkContent(files, subfolders, [p \in Range(files) |-> MkFileInfo(1, 1, 1, 1)]) :
        files \in { <<>>, << <<1>> >> }, subfolders \in SubfolderLists }

\* Three files over two signatures: equal key sets with different multiplicities.
MultisetContents ==
    { MkContent(<< <<1>>, <<2>>, <<3>> >>, <<>>, info) :
        info \in [{ <<1>>, <<2>>, <<3>> } -> { MkFileInfo(1, 1, 1, 1), MkFileInfo(2, 1, 1, 1) }] }

\* Files lo..hi, file k with key k; with `twin`, a further file carrying the key of lo.
WideContent(lo, hi, twin) ==
    LET files == [ i \in 1..(hi - lo + 1) |-> << lo + i - 1 >> ]
        all == IF twin THEN Append(files, <<0>>) ELSE files
    IN  MkContent(all, <<>>,
                  [p \in Range(all) |->
                     IF p = <<0>> THEN MkFileInfo(lo, 1, 1, lo)
                     ELSE MkFileInfo(p[1], 1, 1, p[1])])

WideContents ==
    { WideContent(lo, hi, twin) :
        lo \in 1..(1 + WideSlack), hi \in (MaxWide - WideSlack)..MaxWide, twin \in BOOLEAN }

TestContents == SmallContents \cup SubfolderContents \cup MultisetContents \cup WideContents

\* The two folders SpecClassify compares.
FolderA == <<1>>
FolderB == <<2>>

ClassifyInit ==
    /\ \E cA \in TestContents, cB \in TestContents :
          m_folderContentCache = (FolderA :> cA @@ FolderB :> cB)
    /\ m_currentMode \in Modes
    /\ m_duplicateIssues = <<>>
    /\ pc = "c_start"
    /\ probe = NoProbe
    /\ lastCompare = NoCompare
    /\ fsExists = [d \in Dirs |-> d \in BaseDirs]
    /\ fsFiles = [d \in Dirs |-> <<>>]
    /\ fsModTime = [d \in Dirs |-> 0]
    /\ now = 0
    /\ fsOps = 0
    /\ m_projectFolders = TopLevelFolders
    /\ emitted = <<>>
    /\ cacheFile = NoFile
    /\ m_analysisRunning = FALSE
    /\ m_totalFilesToAnalyze = 0
    /\ m_filesAnalyzed = 0
    /\ projectFolders = <<>>
    /\ loopI = 0
    /\ loopJ = 0
    /\ cacheMeta = <<>>
    /\ runNo = 0
    /\ pairLog = <<>>
    /\ quickRun = NoRun
    /\ lastDone = NoRun

classifyFrame == << fsExists, fsFiles, fsModTime, now, fsOps, cacheFile,
                    m_projectFolders, emitted, m_currentMode,
                    m_analysisRunning, m_totalFilesToAnalyze, m_filesAnalyzed,
                    projectFolders, loopI, loopJ, cacheMeta, runNo, pairLog,
                    quickRun, lastDone >>

\* The three predicates of the engine, applied to (FolderA, FolderB).
ProbePair ==
    /\ pc = "c_start"
    /\ probe' = [kind |-> "probe",
                 exactComplete |->
                    isExactCompleteDuplicate(m_folderContentCache[FolderA],
                                             m_folderContentCache[FolderB], m_currentMode),
                 exactFilesOnly |->
                    isExactFilesOnlyDuplicate(m_folderContentCache[FolderA],
                                              m_folderContentCache[FolderB], m_currentMode),
                 similarity |->
                    calculateFileSimilarity(m_folderContentCache[FolderA],
                                            m_folderContentCache[FolderB], m_currentMode)]
    /\ pc' = "c_probed"
    /\ UNCHANGED << m_folderContentCache, m_duplicateIssues, lastCompare, classifyFrame >>

\* compareFolders(folder1, folder2), and what it appended.
ClassifyCall(folder1, folder2) ==
    LET r == compareFolders(m_folderContentCache, m_duplicateIssues,
                            folder1, folder2, m_currentMode)
    IN  /\ m_folderContentCache' = r.cache
        /\ m_duplicateIssues' = r.issues
        /\ lastCompare' = [kind |-> "compare", folder1 |-> folder1, folder2 |-> folder2,
                           mode |-> m_currentMode,
                           appended |-> Len(r.issues) - Len(m_duplicateIssues)]

ClassifyForward ==
    /\ pc = "c_probed"
    /\ ClassifyCall(FolderA, FolderB)
    /\ pc' = "c_fwd"
    /\ UNCHANGED << probe, classifyFrame >>

ClassifyBackward ==
    /\ pc = "c_fwd"
    /\ ClassifyCall(FolderB, FolderA)
    /\ pc' = "c_both"
    /\ UNCHANGED << probe, classifyFrame >>

ClassifyNext == ProbePair \/ ClassifyForward \/ ClassifyBackward

SpecClassify == ClassifyInit /\ [][ClassifyNext]_vars

----------------------------------------------------------------------------
(* The classification rules as the specification states them *)

ContentA == m_folderContentCache[FolderA]
ContentB == m_folderContentCache[FolderB]

\* "Identical" signatures: equal size, width and height, and in Deep mode equal hash.
SpecIdentical(s1, s2, mode) ==
    /\ s1.fileSize = s2.fileSize
    /\ s1.imageWidth = s2.imageWidth
    /\ s1.imageHeight = s2.imageHeight
    /\ mode = Deep => s1.partialHash = s2.partialHash

\* The ExactComplete predicate of rule 2.
SpecExactComplete(a, b, mode) ==
    /\ Len(a.allFiles) = Len(b.allFiles)
    /\ Len(a.allSubfolders) = Len(b.allSubfolders)
    /\ SameBag(a.allFiles, b.allFiles)
    /\ SameBag(a.allSubfolders, b.allSubfolders)
    /\ \A p \in Range(a.allFiles) : SpecIdentical(a.fileInfo[p], b.fileInfo[p], mode)

\* The content key of a signature: width, height, size, and in Deep mode the hash.
SpecKey(info, mode) ==
    [w |-> info.imageWidth, h |-> info.imageHeight, size |-> info.fileSize,
     hash |-> IF mode = Deep THEN info.partialHash ELSE NoHash]

SpecKeyList(c, mode) == [ i \in 1..Len(c.allFiles) |-> SpecKey(c.fileInfo[c.allFiles[i]], mode) ]

SpecKeySet(c, mode) == Range(SpecKeyList(c, mode))

\* The ExactFilesOnly predicate of rule 3: equality of the multisets of keys.
SpecExactFilesOnly(a, b, mode) ==
    /\ Len(a.allFiles) = Len(b.allFiles)
    /\ Len(a.allFiles) >= 1
    /\ SameBag(SpecKeyList(a, mode), SpecKeyList(b, mode))

SpecInter(a, b, mode) == Cardinality(SpecKeySet(a, mode) \cap SpecKeySet(b, mode))

SpecUnion(a, b, mode) == Cardinality(SpecKeySet(a, mode) \cup SpecKeySet(b, mode))

\* round(n * x / d), halves upwards, for n, x >= 0 and d > 0.
SpecRound(n, d, x) ==
    CHOOSE k \in 0..(n * x + 1) : 2 * d * k <= 2 * n * x + d /\ 2 * n * x + d < 2 * d * (k + 1)

AtLeastOneFile == ContentA.allFiles /= <<>> \/ ContentB.allFiles /= <<>>

\* The issue compareFolders(FolderA, FolderB) appended, if any.
Reported(type) ==
    /\ Len(m_duplicateIssues) >= 1
    /\ m_duplicateIssues[1].type = type

----------------------------------------------------------------------------
(* Claims C1 - C6, under SpecClassify *)

\* C1: compareFolders appends at most one issue; a pair satisfying the ExactComplete
\* predicate (with at least one file) is reported as ExactComplete, and a pair
\* satisfying ExactFilesOnly but not ExactComplete is never reported as PartialDuplicate.
C1_PriorityOrder ==
    /\ lastCompare.kind = "compare" => lastCompare.appended \in {0, 1}
    /\ pc = "c_fwd" =>
         /\ Len(m_duplicateIssues) <= 1
         /\ (SpecExactComplete(ContentA, ContentB, m_currentMode) /\ AtLeastOneFile)
               => Reported(ExactComplete)
         /\ (/\ SpecExactFilesOnly(ContentA, ContentB, m_currentMode)
             /\ ~SpecExactComplete(ContentA, ContentB, m_currentMode))
               => ~Reported(PartialDuplicate)

C1_Witness ==
    /\ pc = "c_fwd"
    /\ SpecExactComplete(ContentA, ContentB, m_currentMode)
    /\ SpecExactFilesOnly(ContentA, ContentB, m_currentMode)
    /\ 10 * SpecInter(ContentA, ContentB, m_currentMode)
          >= 9 * SpecUnion(ContentA, ContentB, m_currentMode)
    /\ Len(ContentA.allFiles) = 2
    /\ Reported(ExactComplete)

\* C2: classifying (A, B) and (B, A) gives no issue both times, or two issues of the
\* same type and similarity with primaryFolder and duplicateFolder swapped.
C2_Symmetry ==
    pc = "c_both" =>
        \/ m_duplicateIssues = <<>>
        \/ /\ Len(m_duplicateIssues) = 2
           /\ m_duplicateIssues[1].type = m_duplicateIssues[2].type
           /\ m_duplicateIssues[1].similarity = m_duplicateIssues[2].similarity
           /\ m_duplicateIssues[1].primaryFolder = FolderA
           /\ m_duplicateIssues[1].duplicateFolder = FolderB
           /\ m_duplicateIssues[2].primaryFolder = FolderB
           /\ m_duplicateIssues[2].duplicateFolder = FolderA

C2_Witness ==
    /\ pc = "c_both"
    /\ Len(m_duplicateIssues) = 2
    /\ m_duplicateIssues[2].type = PartialDuplicate
    /\ m_duplicateIssues[2].similarity.num < m_duplicateIssues[2].similarity.den
    /\ Len(ContentA.allFiles) < Len(ContentB.allFiles)

\* C3: a pair with at least one file is reported as ExactComplete (similarity 1.0,
\* severity High, wastedSpace the smaller totalSize) exactly when the counts are equal,
\* the file and subfolder path lists agree up to order, and the signatures of every
\* path agree in size, width, height and, in Deep mode, partial hash.
C3_ExactComplete ==
    (pc = "c_fwd" /\ AtLeastOneFile) =>
        /\ Reported(ExactComplete) <=> SpecExactComplete(ContentA, ContentB, m_currentMode)
        /\ Reported(ExactComplete) =>
             /\ Len(m_duplicateIssues) = 1
             /\ m_duplicateIssues[1].similarity = Ratio(1, 1)
             /\ m_duplicateIssues[1].severity = SEVERITY_HIGH
             /\ m_duplicateIssues[1].wastedSpace = Min(ContentA.totalSize, ContentB.totalSize)

C3_Witness ==
    /\ pc = "c_fwd"
    /\ m_currentMode = Deep
    /\ Reported(ExactComplete)
    /\ ContentA.allFiles = << <<1>>, <<2>> >>
    /\ ContentB.allFiles = << <<2>>, <<1>> >>
    /\ ContentA.fileInfo[<<1>>] /= ContentA.fileInfo[<<2>>]

\* C4: the ExactFilesOnly predicate holds exactly when the folders have the same
\* number of files, at least one, and every content key occurs equally often in both.
C4_ExactFilesOnlyMultiset ==
    probe.kind = "probe" =>
        (probe.exactFilesOnly <=> SpecExactFilesOnly(ContentA, ContentB, m_currentMode))

\* Keys {k1, k1, k2} against {k1, k2, k2}: not ExactFilesOnly.
C4_Witness ==
    /\ probe.kind = "probe"
    /\ ~probe.exactFilesOnly
    /\ Len(ContentA.allFiles) = 3
    /\ Len(ContentB.allFiles) = 3
    /\ SpecKeySet(ContentA, m_currentMode) = SpecKeySet(ContentB, m_currentMode)
    /\ Cardinality(SpecKeySet(ContentA, m_currentMode)) = 2

\* C5: a pair matching neither exact rule is reported as PartialDuplicate, severity
\* Low, exactly when |intersection| / |union| of the key sets is at least 0.90, and
\* duplicateFiles is round(similarity * max(fileCount(A), fileCount(B))).
C5_PartialThreshold ==
    (/\ pc = "c_fwd"
     /\ ~SpecExactComplete(ContentA, ContentB, m_currentMode)
     /\ ~SpecExactFilesOnly(ContentA, ContentB, m_currentMode)) =>
        LET inter == SpecInter(ContentA, ContentB, m_currentMode)
            union == SpecUnion(ContentA, ContentB, m_currentMode)
        IN  /\ Reported(PartialDuplicate) <=> (union > 0 /\ 100 * inter >= 90 * union)
            /\ Reported(PartialDuplicate) =>
                 /\ m_duplicateIssues[1].severity = SEVERITY_LOW
                 /\ m_duplicateIssues[1].duplicateFiles =
                       SpecRound(inter, union,
                                 Max(Len(ContentA.allFiles), Len(ContentB.allFiles)))
            /\ ~Reported(PartialDuplicate) => m_duplicateIssues = <<>>

\* 9 shared keys out of a union of 10.
C5_Witness ==
    /\ pc = "c_fwd"
    /\ Reported(PartialDuplicate)
    /\ SpecInter(ContentA, ContentB, m_currentMode) = 9
    /\ SpecUnion(ContentA, ContentB, m_currentMode) = 10
    /\ m_duplicateIssues[1].duplicateFiles = 10

\* C6: for two folders with at least one file each, calculateFileSimilarity returns
\* s = |K(A) \cap K(B)| / |K(A) \cup K(B)| with 0 <= s <= 1, s = 1 exactly when the key
\* sets are equal and s = 0 exactly when they are disjoint.
C6_JaccardBounds ==
    (/\ probe.kind = "probe"
     /\ ContentA.allFiles /= <<>>
     /\ ContentB.allFiles /= <<>>) =>
        LET s == probe.similarity
            inter == SpecInter(ContentA, ContentB, m_currentMode)
            union == SpecUnion(ContentA, ContentB, m_currentMode)
        IN  /\ s.den > 0
            /\ 0 <= s.num
            /\ s.num <= s.den
            /\ s.num * union = inter * s.den
            /\ s.num = s.den <=> SpecKeySet(ContentA, m_currentMode)
                                    = SpecKeySet(ContentB, m_currentMode)
            /\ s.num = 0 <=> SpecKeySet(ContentA, m_currentMode)
                                \cap SpecKeySet(ContentB, m_currentMode) = {}

C6_Witness ==
    /\ probe.kind = "probe"
    /\ probe.similarity.num = 1
    /\ probe.similarity.den = 3
    /\ m_currentMode = Deep

----------------------------------------------------------------------------
(* The persisted cache: saveFolderContentCache and loadFolderContentCache *)

\* The version tag saveFolderContentCache writes and loadFolderContentCache expects.
CACHE_VERSION == "FolderContentCache_v2.0"

\* The tag of a file left by an earlier release.
STALE_VERSION == "FolderContentCache_v1.0"

\* QDateTime::addSecs: an invalid QDateTime stays invalid.
addSecs(t, s) == IF t = InvalidTime THEN InvalidTime ELSE t + s

\* The keys of a QHash in the order the iteration visits them. Qt leaves the
\* order open; nothing the load keeps depends on it, the keys being distinct.
RECURSIVE HashKeys(_)
HashKeys(S) ==
    IF S = {} THEN <<>>
    ELSE LET m == CHOOSE x \in S : \A y \in S : x = y \/ SeqLess(x, y)
         IN  <<m>> \o HashKeys(S \ {m})

\* Lines 1173-1180: the FileInfo map as the stream holds it, one record per key.
WriteFileInfo(content) ==
    LET keys == HashKeys(DOMAIN content.fileInfo)
    IN  [ i \in 1..Len(keys) |->
            [filePath |-> keys[i],
             fileSize |-> content.fileInfo[keys[i]].fileSize,
             imageWidth |-> content.fileInfo[keys[i]].imageWidth,
             imageHeight |-> content.fileInfo[keys[i]].imageHeight,
             partialHash |-> content.fileInfo[keys[i]].partialHash] ]

\* Lines 1158-1181: one folder as the stream holds it, stamped with the
\* modification time the folder has when the cache is saved.
WriteEntry(folderPath, content) ==
    [folderPath |-> folderPath,
     folderModTime |-> lastModified(folderPath),
     allFiles |-> content.allFiles,
     allSubfolders |-> content.allSubfolders,
     totalSize |-> content.totalSize,
     fileInfo |-> WriteFileInfo(content)]

\* The file saveFolderContentCache leaves.
saveFolderContentCache(cache, mode) ==
    LET keys == HashKeys(DOMAIN cache)
    IN  [kind |-> "file", version |-> CACHE_VERSION, mode |-> mode,
         entries |-> [ i \in 1..Len(keys) |-> WriteEntry(keys[i], cache[keys[i]]) ]]

\* Lines 1234-1247: content.fileInfo[filePath] = info, record by record.
RECURSIVE ReadFileInfo(_, _)
ReadFileInfo(records, fileInfo) ==
    IF records = <<>> THEN fileInfo
    ELSE LET r == Head(records)
         IN  ReadFileInfo(Tail(records),
                          Put(fileInfo, r.filePath,
                              MkFileInfo(r.fileSize, r.imageWidth, r.imageHeight,
                                         r.partialHash)))

ReadEntry_NoHash(e) ==
    [allFiles |-> e.allFiles, allSubfolders |-> e.allSubfolders,
     fileInfo |-> [ q \in DOMAIN ReadFileInfo(e.fileInfo, <<>>) |->
                     [ReadFileInfo(e.fileInfo, <<>>)[q] EXCEPT !.partialHash = NoHash] ],
     totalSize |-> e.totalSize]

\* Lines 1223-1247: the FolderContent read for one entry.
ReadEntry(e) ==
    [allFiles |-> e.allFiles, allSubfolders |-> e.allSubfolders,
     fileInfo |-> ReadFileInfo(e.fileInfo, <<>>), totalSize |-> e.totalSize]

isFolderContentCacheValid_DirOnly(folderPath, content) == DirExists(folderPath)

isFolderContentCacheValid(folderPath, content) ==
    IF ~DirExists(folderPath) THEN FALSE
    ELSE LET hasImageFiles ==
                 \E n \in Range(FileNames(folderPath)) :
                     toLower(fsFiles[folderPath][n].suffix) \in SUPPORTED_EXTENSIONS
         IN  IF hasImageFiles /\ content.allFiles = <<>> THEN FALSE ELSE TRUE

\* Line 1252: folderInfo.lastModified() <= cachedModTime.addSecs(1). An invalid
\* QDateTime, InvalidTime, orders below every valid one.
ModTimeAccepted(current, cachedModTime) == current <= addSecs(cachedModTime, 1)

\* Lines 1221-1263: the loop over the entries of the file.
RECURSIVE LoadEntries(_, _)
LoadEntries(entries, cache) ==
    IF entries = <<>> THEN cache
    ELSE LET e == Head(entries)
             content == ReadEntry(e)
             kept == IF isFolderContentCacheValid(e.folderPath, content)
                     THEN IF /\ DirExists(e.folderPath)
                             /\ ModTimeAccepted(lastModified(e.folderPath), e.folderModTime)
                          THEN Put(cache, e.folderPath, content)
                          ELSE cache
                     ELSE cache
         IN  LoadEntries(Tail(entries), kept)

\* loadFolderContentCache on the empty cache of a new analyzer.
loadFolderContentCache(file) ==
    IF file.kind /= "file" THEN <<>>
    ELSE IF file.version /= CACHE_VERSION THEN <<>>
    ELSE LoadEntries(file.entries, <<>>)

----------------------------------------------------------------------------
(* The analyzer in its environment: the filesystem changes between runs,    *)
(* the user starts Quick and Deep runs, refreshes, and reopens the dialog.  *)

\* The clock stops at MaxTime.
MaxTime == 2

\* Number of changes made to the filesystem.
MaxFsOps == 1

\* Number of analysis runs started.
MaxRuns == 3

\* Two images alike in size and dimensions and different in content, and a
\* file that is no image.
FileX == MkFile("jpg", 1, 1, 1, 1)
FileY == MkFile("JPG", 1, 1, 1, 2)
FileT == MkFile("txt", 1, 0, 0, 3)
FileVariants == { FileX, FileY, FileT }

\* The file names a directory can hold.
FileNameSet == { 1 }

\* Directories the user may delete: <<2>>, a project root without subfolders.
RemovableDirs == { <<2>> }

\* A cache file written by an earlier release.
StaleFile ==
    [kind |-> "file", version |-> STALE_VERSION, mode |-> Quick,
     entries |-> << [folderPath |-> <<2>>, folderModTime |-> 0, allFiles |-> <<>>,
                     allSubfolders |-> <<>>, totalSize |-> 0, fileInfo |-> <<>>] >>]

\* History: for each loaded entry, that it was loaded (run 0) and the
\* modification time the file records for it.
LoadedMeta(file, cache) ==
    [ f \in DOMAIN cache |->
        [run |-> 0,
         modTime |-> LET i == CHOOSE k \in 1..Len(file.entries) :
                                 file.entries[k].folderPath = f
                     IN  file.entries[i].folderModTime] ]

\* The state the constructor leaves (lines 81-92): Quick mode, not running,
\* the cache loaded from the project's cache file.
Init ==
    /\ fsExists = [d \in Dirs |-> d \in BaseDirs]
    /\ \E files2 \in { <<>>, <<FileX>>, <<FileY>> } :
          fsFiles = (<<1>> :> <<>> @@ <<1, 1>> :> <<FileX>> @@ <<2>> :> files2
                     @@ [d \in DeepDirs |-> <<>>])
    /\ fsModTime = [d \in Dirs |-> 0]
    /\ now = 0
    /\ fsOps = 0
    /\ cacheFile \in { NoFile, StaleFile }
    /\ m_projectFolders = TopLevelFolders
    /\ emitted = <<>>
    /\ m_currentMode = Quick
    /\ m_analysisRunning = FALSE
    /\ m_folderContentCache = loadFolderContentCache(cacheFile)
    /\ m_duplicateIssues = <<>>
    /\ m_totalFilesToAnalyze = 0
    /\ m_filesAnalyzed = 0
    /\ pc = "idle"
    /\ projectFolders = <<>>
    /\ loopI = 0
    /\ loopJ = 0
    /\ probe = [kind |-> "load"]
    /\ cacheMeta = LoadedMeta(cacheFile, m_folderContentCache)
    /\ lastCompare = NoCompare
    /\ runNo = 0
    /\ pairLog = NoRun
    /\ quickRun = NoRun
    /\ lastDone = NoRun

analyzerVars == << cacheFile, emitted, m_folderContentCache, m_duplicateIssues, m_currentMode,
                   m_analysisRunning, m_totalFilesToAnalyze, m_filesAnalyzed, pc,
                   projectFolders, loopI, loopJ, cacheMeta, lastCompare, runNo,
                   pairLog, quickRun, lastDone >>

\* A file is created or overwritten in d. Creating an entry stamps the
\* directory; rewriting a file leaves the directory's time alone.
WriteFile(d, n, file) ==
    /\ pc = "idle"
    /\ fsOps < MaxFsOps
    /\ DirExists(d)
    /\ n \in DOMAIN fsFiles[d] => fsFiles[d][n] /= file
    /\ fsFiles' = [fsFiles EXCEPT ![d] = Put(@, n, file)]
    /\ fsModTime' = IF n \in DOMAIN fsFiles[d] THEN fsModTime
                    ELSE [fsModTime EXCEPT ![d] = now]
    /\ fsOps' = fsOps + 1
    /\ probe' = NoProbe
    /\ UNCHANGED << fsExists, now, m_projectFolders, analyzerVars >>

\* A file of d is deleted.
DeleteFile(d, n) ==
    /\ pc = "idle"
    /\ fsOps < MaxFsOps
    /\ DirExists(d)
    /\ n \in DOMAIN fsFiles[d]
    /\ fsFiles' = [fsFiles EXCEPT ![d] = [m \in DOMAIN @ \ {n} |-> @[m]]]
    /\ fsModTime' = [fsModTime EXCEPT ![d] = now]
    /\ fsOps' = fsOps + 1
    /\ probe' = NoProbe
    /\ UNCHANGED << fsExists, now, m_projectFolders, analyzerVars >>

\* A directory is deleted with what it holds; the directory that held it is
\* stamped.
RemoveDir(d) ==
    /\ pc = "idle"
    /\ fsOps < MaxFsOps
    /\ DirExists(d)
    /\ fsExists' = [fsExists EXCEPT ![d] = FALSE]
    /\ fsFiles' = [fsFiles EXCEPT ![d] = <<>>]
    /\ fsModTime' = IF Len(d) > 1
                    THEN [fsModTime EXCEPT ![SubSeq(d, 1, Len(d) - 1)] = now]
                    ELSE fsModTime
    /\ fsOps' = fsOps + 1
    /\ probe' = NoProbe
    /\ UNCHANGED << now, m_projectFolders, analyzerVars >>

\* A second passes.
Tick ==
    /\ pc = "idle"
    /\ now < MaxTime
    /\ now' = now + 1
    /\ probe' = NoProbe
    /\ UNCHANGED << fsExists, fsFiles, fsModTime, fsOps, m_projectFolders, analyzerVars >>

\* What the analyzer reads and never writes.
fsVars == << fsExists, fsFiles, fsModTime, now, fsOps, m_projectFolders >>

\* The category an appended issue list stands for.
CategoryOf(appended) == IF appended = <<>> THEN "none" ELSE appended[1].type

\* startAnalysis(mode) up to the first processEvents() of performAnalysis:
\* lines 96-124 and 408-427. History: origin tells whether the Quick or Deep
\* button ("start") or refreshAnalysis ("refresh") made the call.
BeginRunFrom(mode, origin) ==
    /\ m_currentMode' = mode
    /\ m_duplicateIssues' = <<>>
    /\ runNo' = runNo + 1
    /\ IF Len(getProjectFolders) < 2
       THEN /\ pc' = "idle"
            /\ probe' = [kind |-> "insufficient", mode |-> m_currentMode,
                         issues |-> m_duplicateIssues, emitted |-> emitted,
                         running |-> m_analysisRunning,
                         cache |-> m_folderContentCache']
            /\ UNCHANGED << m_analysisRunning, m_totalFilesToAnalyze, m_filesAnalyzed,
                            projectFolders, loopI, loopJ, pairLog, emitted >>
       ELSE /\ probe' = NoProbe
            /\ pairLog' = [kind |-> "run", origin |-> origin, fsStart |-> fsOps,
                            log |-> <<>>, calls |-> <<>>]
            /\ emitted' = << [signal |-> "analysisStarted",
                              totalFolders |-> Len(getProjectFolders), mode |-> mode] >>
            /\ m_analysisRunning' = TRUE
            /\ m_filesAnalyzed' = 0
            /\ m_totalFilesToAnalyze' = 0
            /\ projectFolders' = getProjectFolders
            /\ loopI' = 1
            /\ loopJ' = 0
            /\ pc' = "count"

BeginRun(mode) == BeginRunFrom(mode, "start")

\* The user presses Quick or Deep: startAnalysis(mode). clearResults keeps
\* m_folderContentCache.
StartAnalysis(mode) ==
    /\ pc = "idle"
    /\ runNo < MaxRuns
    /\ UNCHANGED << fsVars, cacheFile, m_folderContentCache, cacheMeta, lastCompare,
                    quickRun, lastDone >>
    /\ BeginRun(mode)

\* refreshAnalysis() starting the run without clearing the cache.
RefreshAnalysis_KeepCache ==
    /\ pc = "idle"
    /\ ~m_analysisRunning
    /\ runNo < MaxRuns
    /\ BeginRunFrom(m_currentMode, "refresh")
    /\ UNCHANGED << fsVars, cacheFile, m_folderContentCache, cacheMeta, lastCompare,
                    quickRun, lastDone >>

\* refreshAnalysis() with no analysis running: the cache is cleared, then
\* startAnalysis(m_currentMode).
RefreshAnalysis ==
    /\ pc = "idle"
    /\ ~m_analysisRunning
    /\ runNo < MaxRuns
    /\ m_folderContentCache' = <<>>
    /\ cacheMeta' = <<>>
    /\ BeginRunFrom(m_currentMode, "refresh")
    /\ UNCHANGED << fsVars, cacheFile, lastCompare, quickRun, lastDone >>

\* resetAnalysisState(), followed by the return out of performAnalysis.
resetAnalysisState ==
    /\ m_analysisRunning' = FALSE
    /\ pc' = "idle"

\* One iteration of the counting loop, lines 430-447, up to its processEvents().
CountStep ==
    /\ pc = "count"
    /\ IF ~m_analysisRunning
       THEN /\ resetAnalysisState
            /\ probe' = [kind |-> "cancelled"]
            /\ UNCHANGED << m_totalFilesToAnalyze, loopI >>
       ELSE LET folder == projectFolders[loopI]
            IN  /\ m_totalFilesToAnalyze' =
                      IF folder \notin DOMAIN m_folderContentCache
                      THEN m_totalFilesToAnalyze + countFilesInFolder(folder)
                      ELSE m_totalFilesToAnalyze
                /\ IF loopI < Len(projectFolders)
                   THEN loopI' = loopI + 1 /\ pc' = "count"
                   ELSE loopI' = 0 /\ pc' = "pairs"
                /\ probe' = NoProbe
                /\ UNCHANGED m_analysisRunning
    /\ UNCHANGED << fsVars, cacheFile, emitted, m_folderContentCache, m_duplicateIssues,
                    m_currentMode, m_filesAnalyzed, projectFolders, loopJ, cacheMeta,
                    lastCompare, runNo, pairLog, quickRun, lastDone >>

\* One iteration of the pair loop of analyzeFolderPairs, lines 499-512, up to
\* its processEvents(): compareFolders on the next pair, scans included. The
\* list is fetched when the loop is entered (loopI = 0).
PairStep ==
    /\ pc = "pairs"
    /\ probe' = NoProbe
    /\ LET list == IF loopI = 0 THEN getProjectFolders ELSE projectFolders
           i == IF loopI = 0 THEN 1 ELSE loopI
           j == IF loopI = 0 THEN 2 ELSE loopJ
       IN  IF ~m_analysisRunning \/ j > Len(list)
           THEN /\ pc' = "finish"
                /\ UNCHANGED << m_folderContentCache, m_duplicateIssues, m_filesAnalyzed,
                                projectFolders, loopI, loopJ, cacheMeta, lastCompare,
                                pairLog >>
           ELSE LET folder1 == list[i]
                    folder2 == list[j]
                    r == compareFolders(m_folderContentCache, m_duplicateIssues,
                                        folder1, folder2, m_currentMode)
                    scanned == Scanned(m_folderContentCache, folder1, folder2)
                    appended == SubSeq(r.issues, Len(m_duplicateIssues) + 1, Len(r.issues))
                    reused == { f \in { folder1, folder2 } :
                                  /\ f \in DOMAIN m_folderContentCache
                                  /\ cacheMeta[f].run < runNo }
                IN  /\ m_folderContentCache' = r.cache
                    /\ m_duplicateIssues' = r.issues
                    /\ m_filesAnalyzed' =
                          m_filesAnalyzed
                          + SumSeq([ k \in 1..Len(scanned) |->
                                       Len(r.cache[scanned[k]].allFiles) ])
                    /\ cacheMeta' =
                          [ f \in DOMAIN r.cache |->
                              IF f \in Range(scanned)
                              THEN [run |-> runNo, modTime |-> lastModified(f)]
                              ELSE cacheMeta[f] ]
                    /\ lastCompare' =
                          [kind |-> "compare", folder1 |-> folder1, folder2 |-> folder2,
                           mode |-> m_currentMode, appended |-> Len(appended),
                           content1 |-> r.cache[folder1], content2 |-> r.cache[folder2],
                           reused |-> reused,
                           cachedModTime |-> [ f \in reused |-> cacheMeta[f].modTime ],
                           currentModTime |-> [ f \in reused |-> lastModified(f) ]]
                    /\ pairLog' =
                          [pairLog EXCEPT
                             !.log = Put(@, << folder1, folder2 >>,
                                         [category |-> CategoryOf(appended),
                                          content1 |-> r.cache[folder1],
                                          content2 |-> r.cache[folder2]]),
                             !.calls = Append(@, [i |-> i, j |-> j, appended |-> appended,
                                                  scanned |-> scanned])]
                    /\ projectFolders' = list
                    /\ IF j < Len(list)
                       THEN loopI' = i /\ loopJ' = j + 1 /\ pc' = "pairs"
                       ELSE IF i + 2 <= Len(list)
                       THEN loopI' = i + 1 /\ loopJ' = i + 2 /\ pc' = "pairs"
                       ELSE loopI' = i /\ loopJ' = j /\ pc' = "finish"
    /\ UNCHANGED << fsVars, cacheFile, emitted, m_currentMode, m_analysisRunning,
                    m_totalFilesToAnalyze, runNo, quickRun, lastDone >>

\* performAnalysis, lines 466-487, with the cache left unsaved.
FinishStep_NoSave ==
    /\ pc = "finish"
    /\ IF ~m_analysisRunning
       THEN resetAnalysisState /\ probe' = [kind |-> "cancelled"]
       ELSE m_analysisRunning' = FALSE /\ pc' = "emit" /\ probe' = NoProbe
    /\ UNCHANGED << fsVars, cacheFile, emitted, m_folderContentCache, m_duplicateIssues,
                    m_currentMode, m_totalFilesToAnalyze, m_filesAnalyzed, projectFolders,
                    loopI, loopJ, cacheMeta, lastCompare, runNo, pairLog, quickRun,
                    lastDone >>

\* performAnalysis saving the cache before it tests the flag.
FinishStep_SaveOnCancel ==
    /\ pc = "finish"
    /\ cacheFile' = saveFolderContentCache(m_folderContentCache, m_currentMode)
    /\ IF ~m_analysisRunning
       THEN resetAnalysisState /\ probe' = [kind |-> "cancelled"]
       ELSE m_analysisRunning' = FALSE /\ pc' = "emit" /\ probe' = NoProbe
    /\ UNCHANGED << fsVars, emitted, m_folderContentCache, m_duplicateIssues, m_currentMode,
                    m_totalFilesToAnalyze, m_filesAnalyzed, projectFolders, loopI, loopJ,
                    cacheMeta, lastCompare, runNo, pairLog, quickRun, lastDone >>

\* performAnalysis, lines 466-487: a cancelled run resets and returns; any
\* other saves the cache and clears the running flag.
FinishStep ==
    /\ pc = "finish"
    /\ IF ~m_analysisRunning
       THEN /\ resetAnalysisState
            /\ probe' = [kind |-> "cancelled"]
            /\ UNCHANGED cacheFile
       ELSE /\ cacheFile' = saveFolderContentCache(m_folderContentCache, m_currentMode)
            /\ probe' = NoProbe
            /\ m_analysisRunning' = FALSE
            /\ pc' = "emit"
    /\ UNCHANGED << fsVars, emitted, m_folderContentCache, m_duplicateIssues, m_currentMode,
                    m_totalFilesToAnalyze, m_filesAnalyzed, projectFolders, loopI, loopJ,
                    cacheMeta, lastCompare, runNo, pairLog, quickRun, lastDone >>

\* performAnalysis, line 489: analysisCompleted is emitted and the run returns.
EmitCompleted ==
    /\ pc = "emit"
    /\ probe' = [kind |-> "completed"]
    /\ LET done == [kind |-> "run", mode |-> m_currentMode, run |-> runNo,
                    fsStart |-> pairLog.fsStart, fsEnd |-> fsOps,
                    log |-> pairLog.log, calls |-> pairLog.calls,
                    list |-> projectFolders, issues |-> m_duplicateIssues,
                    saved |-> m_folderContentCache, file |-> cacheFile]
       IN  /\ emitted' = Append(emitted,
                                [signal |-> "analysisCompleted",
                                 issuesFound |-> Len(m_duplicateIssues),
                                 mode |-> m_currentMode])
           /\ pc' = "idle"
           /\ lastDone' = done
           /\ quickRun' = IF m_currentMode = Quick THEN done ELSE quickRun
    /\ UNCHANGED << fsVars, cacheFile, m_folderContentCache, m_duplicateIssues,
                    m_currentMode, m_analysisRunning, m_totalFilesToAnalyze,
                    m_filesAnalyzed, projectFolders, loopI, loopJ, cacheMeta, lastCompare,
                    runNo, pairLog >>

\* The dialog is closed and opened again: a new DuplicateAnalyzer is
\* constructed (lines 81-92) and loads the cache file.
Reopen ==
    /\ pc = "idle"
    /\ probe.kind /= "load"
    /\ m_currentMode' = Quick
    /\ m_analysisRunning' = FALSE
    /\ m_folderContentCache' = loadFolderContentCache(cacheFile)
    /\ cacheMeta' = LoadedMeta(cacheFile, m_folderContentCache')
    /\ m_duplicateIssues' = <<>>
    /\ m_totalFilesToAnalyze' = 0
    /\ m_filesAnalyzed' = 0
    /\ projectFolders' = <<>>
    /\ loopI' = 0
    /\ loopJ' = 0
    /\ probe' = [kind |-> "load"]
    /\ lastCompare' = NoCompare
    /\ emitted' = <<>>
    /\ UNCHANGED << fsVars, cacheFile, pc, runNo, pairLog, quickRun, lastDone >>

Next ==
    \/ \E d \in Dirs, n \in FileNameSet, file \in FileVariants : WriteFile(d, n, file)
    \/ \E d \in Dirs, n \in FileNameSet : DeleteFile(d, n)
    \/ \E d \in RemovableDirs : RemoveDir(d)
    \/ Tick
    \/ \E mode \in Modes : StartAnalysis(mode)
    \/ RefreshAnalysis
    \/ CountStep
    \/ PairStep
    \/ FinishStep
    \/ EmitCompleted
    \/ Reopen

Spec == Init /\ [][Next]_vars

----------------------------------------------------------------------------
(* Properties of runs, of the cache between runs, and of the load *)

\* ExactComplete > ExactFilesOnly > PartialDuplicate > none
Rank(category) ==
    CASE category = ExactComplete -> 3
      [] category = ExactFilesOnly -> 2
      [] category = PartialDuplicate -> 1
      [] OTHER -> 0

\* Every file of the content carries a partial hash.
FullyHashed(content) ==
    \A i \in 1..Len(content.allFiles) :
        ValueOf(content, content.allFiles[i]).partialHash /= NoHash

\* The content with its partial hashes blanked: paths, sizes and dimensions.
StripHash(content) ==
    [content EXCEPT !.fileInfo = [ q \in DOMAIN @ |-> [@[q] EXCEPT !.partialHash = NoHash] ]]

\* A Quick run completed, a Deep run completed after it, and the filesystem
\* did not change from the start of the first to the end of the second.
QuickThenDeep ==
    /\ quickRun.kind = "run"
    /\ lastDone.kind = "run"
    /\ lastDone.mode = Deep
    /\ quickRun.run < lastDone.run
    /\ quickRun.fsStart = lastDone.fsEnd

\* The pairs both runs classified.
CommonPairs == DOMAIN quickRun.log \cap DOMAIN lastDone.log

\* For pair p the Deep run classified Deep fingerprints of the very files
\* whose sizes and dimensions the Quick run classified.
SameFilesDeepHashed(p) ==
    /\ StripHash(quickRun.log[p].content1) = StripHash(lastDone.log[p].content1)
    /\ StripHash(quickRun.log[p].content2) = StripHash(lastDone.log[p].content2)
    /\ FullyHashed(lastDone.log[p].content1)
    /\ FullyHashed(lastDone.log[p].content2)

\* C7, as stated: when the same unchanged folders are analysed in Quick mode
\* and then in Deep mode, the Quick run reports for no pair a stronger
\* category than the Deep run reports for it.
C7_QuickNeverStronger ==
    QuickThenDeep =>
        \A p \in CommonPairs :
            Rank(quickRun.log[p].category) <= Rank(lastDone.log[p].category)

\* C7, amended: the order runs the other way for the exact categories. When a
\* Deep run that classified Deep fingerprints of the same files reports
\* ExactComplete or ExactFilesOnly for a pair, the earlier Quick run reported
\* a category at least as strong for that pair; the Quick run may report a
\* stronger category than the Deep run.
C7_QuickCoversDeepExact ==
    QuickThenDeep =>
        \A p \in CommonPairs :
            (/\ SameFilesDeepHashed(p)
             /\ lastDone.log[p].category \in { ExactComplete, ExactFilesOnly })
            => Rank(quickRun.log[p].category) >= Rank(lastDone.log[p].category)

\* A Deep run after a Quick run reported an exact duplicate from Deep
\* fingerprints of the files the Quick run classified.
C7_Witness ==
    /\ QuickThenDeep
    /\ \E p \in CommonPairs :
          /\ SameFilesDeepHashed(p)
          /\ lastDone.log[p].category = ExactComplete
          /\ quickRun.log[p].category = ExactComplete

\* C8: in a Deep run every file signature a classification reads carries a
\* partial hash: no operand of a Deep comparison is a FolderContent that was
\* fingerprinted in Quick mode.
C8_DeepReadsDeepFingerprints ==
    (lastCompare.kind = "compare" /\ lastCompare.mode = Deep) =>
        /\ FullyHashed(lastCompare.content1)
        /\ FullyHashed(lastCompare.content2)

\* C9: a comparison is never served a FolderContent cached by an earlier run
\* (or loaded at construction) for a folder whose modification time has since
\* advanced beyond what the load itself would accept.
C9_StaleEntryRescanned ==
    lastCompare.kind = "compare" =>
        \A f \in lastCompare.reused :
            ModTimeAccepted(lastCompare.currentModTime[f], lastCompare.cachedModTime[f])

\* The directory holds, directly, a file with a supported image extension.
HoldsImage(d) ==
    \E n \in DOMAIN fsFiles[d] : toLower(fsFiles[d][n].suffix) \in SUPPORTED_EXTENSIONS

\* The checks an entry of the cache file has to pass: the folder exists, its
\* modification time is at most the recorded time plus one second, and it is
\* not so that the folder holds an image while the entry lists no file.
EntryPasses(e) ==
    /\ e.folderPath \in Dirs
    /\ fsExists[e.folderPath]
    /\ e.folderModTime /= InvalidTime
    /\ fsModTime[e.folderPath] <= e.folderModTime + 1
    /\ ~(HoldsImage(e.folderPath) /\ e.allFiles = <<>>)

\* The cache holds for entry e the content the file records.
HoldsEntry(cache, e) ==
    /\ e.folderPath \in DOMAIN cache
    /\ cache[e.folderPath].allFiles = e.allFiles
    /\ cache[e.folderPath].allSubfolders = e.allSubfolders
    /\ cache[e.folderPath].totalSize = e.totalSize
    /\ DOMAIN cache[e.folderPath].fileInfo = { e.fileInfo[k].filePath : k \in 1..Len(e.fileInfo) }
    /\ \A k \in 1..Len(e.fileInfo) :
          cache[e.folderPath].fileInfo[e.fileInfo[k].filePath]
            = MkFileInfo(e.fileInfo[k].fileSize, e.fileInfo[k].imageWidth,
                         e.fileInfo[k].imageHeight, e.fileInfo[k].partialHash)

\* The file is there and carries the expected version tag.
FileAccepted == cacheFile.kind = "file" /\ cacheFile.version = CACHE_VERSION

----------------------------------------------------------------------------
(* Properties of the persisted cache, of runs that cannot start, of         *)
(* cancelled runs and of the pair loop                                      *)

\* The content is what a scan of the folder yields now, in one of the modes.
FreshScan(f, content) == \E mode \in Modes : content = analyzeFolderContent(f, mode)

\* The modification time the cache file records for folder f.
RecordedModTime(f) ==
    LET i == CHOOSE k \in 1..Len(cacheFile.entries) : cacheFile.entries[k].folderPath = f
    IN  cacheFile.entries[i].folderModTime

\* Folder f, saved by the last completed run with the content a scan yields,
\* and not modified since.
SavedFreshUnmodified(f) ==
    /\ DirExists(f)
    /\ FreshScan(f, lastDone.saved[f])
    /\ fsModTime[f] = RecordedModTime(f)

\* The two contents agree in what the claim lists.
SameContent(c, d) ==
    /\ c.allFiles = d.allFiles
    /\ c.allSubfolders = d.allSubfolders
    /\ c.totalSize = d.totalSize
    /\ DOMAIN c.fileInfo = DOMAIN d.fileInfo
    /\ \A q \in DOMAIN c.fileInfo : c.fileInfo[q] = d.fileInfo[q]

\* C11: the cache a run saved and a new analyzer loaded holds, for every
\* folder scanned as it is on disk and unmodified since, a FolderContent with
\* the saved allFiles, allSubfolders, totalSize and signatures, and
\* classifying it against any other cached folder, in either mode and either
\* order, gives the issue the saved content gives.
C11_CacheRoundTrip ==
    (probe.kind = "load" /\ lastDone.kind = "run") =>
        \A f \in DOMAIN lastDone.saved :
            SavedFreshUnmodified(f) =>
                /\ f \in DOMAIN m_folderContentCache
                /\ SameContent(m_folderContentCache[f], lastDone.saved[f])
                /\ \A g \in DOMAIN m_folderContentCache \ {f}, mode \in Modes :
                      /\ ClassifyPair(f, g, m_folderContentCache[f],
                                      m_folderContentCache[g], mode)
                           = ClassifyPair(f, g, lastDone.saved[f],
                                          m_folderContentCache[g], mode)
                      /\ ClassifyPair(g, f, m_folderContentCache[g],
                                      m_folderContentCache[f], mode)
                           = ClassifyPair(g, f, m_folderContentCache[g],
                                          lastDone.saved[f], mode)

\* A Deep run saved a folder with files; a new analyzer loaded it and
\* classifies it as a duplicate of another folder it loaded.
C11_Witness ==
    /\ probe.kind = "load"
    /\ lastDone.kind = "run"
    /\ \E f \in DOMAIN lastDone.saved :
          /\ SavedFreshUnmodified(f)
          /\ lastDone.saved[f].allFiles /= <<>>
          /\ FullyHashed(lastDone.saved[f])
          /\ f \in DOMAIN m_folderContentCache
          /\ \E g \in DOMAIN m_folderContentCache \ {f} :
                ClassifyPair(f, g, m_folderContentCache[f], m_folderContentCache[g], Deep)
                  /= <<>>

----------------------------------------------------------------------------
(* SpecRoots: runs over the project lists FolderManager::addFolder builds *)

\* Most folders added to a project.
MaxRoots == 2

\* FolderManager::addFolder: a path that is no directory, or that the project
\* holds already, is refused; any other is appended, a folder lying inside
\* another project folder included.
addFolder(folders, folderPath) ==
    IF ~DirExists(folderPath) THEN folders
    ELSE IF folderPath \in Range(folders) THEN folders
    ELSE Append(folders, folderPath)

\* The project after the folders of paths were added in order.
RECURSIVE AddAll(_, _)
AddAll(folders, paths) ==
    IF paths = <<>> THEN folders
    ELSE AddAll(addFolder(folders, Head(paths)), Tail(paths))

\* The directories a project folder can be removed from under.
RootsRemovableDirs == { <<1, 1>>, <<2>> }

RootsInit ==
    /\ fsExists = [d \in Dirs |-> d \in BaseDirs]
    /\ \E files2 \in { <<>>, <<FileX>>, <<FileY>> } :
          fsFiles = (<<1>> :> <<>> @@ <<1, 1>> :> <<FileX>> @@ <<2>> :> files2
                     @@ [d \in DeepDirs |-> <<>>])
    /\ fsModTime = [d \in Dirs |-> 0]
    /\ now = 0
    /\ fsOps = 0
    /\ cacheFile = NoFile
    /\ \E n \in 1..MaxRoots : \E paths \in [1..n -> Dirs] :
          m_projectFolders = AddAll(<<>>, paths)
    /\ emitted = <<>>
    /\ m_currentMode = Quick
    /\ m_analysisRunning = FALSE
    /\ m_folderContentCache = loadFolderContentCache(cacheFile)
    /\ m_duplicateIssues = <<>>
    /\ m_totalFilesToAnalyze = 0
    /\ m_filesAnalyzed = 0
    /\ pc = "idle"
    /\ projectFolders = <<>>
    /\ loopI = 0
    /\ loopJ = 0
    /\ probe = [kind |-> "load"]
    /\ cacheMeta = LoadedMeta(cacheFile, m_folderContentCache)
    /\ lastCompare = NoCompare
    /\ runNo = 0
    /\ pairLog = NoRun
    /\ quickRun = NoRun
    /\ lastDone = NoRun

RootsNext ==
    \/ \E d \in RootsRemovableDirs : RemoveDir(d)
    \/ \E mode \in Modes : StartAnalysis(mode)
    \/ RefreshAnalysis
    \/ CountStep
    \/ PairStep
    \/ FinishStep
    \/ EmitCompleted

SpecRoots == RootsInit /\ [][RootsNext]_vars

\* C12: a start over fewer than two folders changes nothing: the analyzer is
\* idle afterwards with the mode, the results, the cache and the signals it
\* had before, and no signal was emitted.
C12_InsufficientChangesNothing ==
    probe.kind = "insufficient" =>
        /\ pc = "idle"
        /\ m_analysisRunning = probe.running
        /\ m_currentMode = probe.mode
        /\ m_duplicateIssues = probe.issues
        /\ m_folderContentCache = probe.cache
        /\ emitted = probe.emitted

\* The state right after EmitCompleted: a run completed and returned.
JustCompleted == probe.kind = "completed"

\* The two folders of an issue, as a set.
FolderPair(issue) == { issue.primaryFolder, issue.duplicateFolder }

\* C17: the result set of a completed run holds at most one issue per
\* unordered pair of folder paths, whatever the project roots are.
C17_OneIssuePerFolderPair ==
    JustCompleted =>
        \A a, b \in 1..Len(m_duplicateIssues) :
            a < b => FolderPair(m_duplicateIssues[a]) /= FolderPair(m_duplicateIssues[b])

\* <<i1, j1>> comes before <<i2, j2>> in lexicographic order.
LexLess(c, d) == c.i < d.i \/ (c.i = d.i /\ c.j < d.j)

\* The issues the calls appended, in the order of the calls.
RECURSIVE AppendedBy(_)
AppendedBy(calls) ==
    IF calls = <<>> THEN <<>> ELSE calls[1].appended \o AppendedBy(Tail(calls))

\* C18: a completed run over n list entries called compareFolders once for
\* every index pair i < j, in lexicographic order; the result set is what the
\* calls appended, in call order, at most one issue per call, and each issue
\* names the entry of the smaller index as primaryFolder and another folder
\* as duplicateFolder.
C18_PairIterationOrder ==
    JustCompleted =>
        LET n == Len(lastDone.list)
            calls == lastDone.calls
        IN  /\ 2 * Len(calls) = n * (n - 1)
            /\ \A k \in 1..Len(calls) :
                  /\ 1 <= calls[k].i /\ calls[k].i < calls[k].j /\ calls[k].j <= n
                  /\ k < Len(calls) => LexLess(calls[k], calls[k + 1])
                  /\ Len(calls[k].appended) <= 1
                  /\ \A a \in 1..Len(calls[k].appended) :
                        /\ calls[k].appended[a].primaryFolder = lastDone.list[calls[k].i]
                        /\ calls[k].appended[a].duplicateFolder = lastDone.list[calls[k].j]
                        /\ calls[k].appended[a].primaryFolder
                             /= calls[k].appended[a].duplicateFolder
            /\ m_duplicateIssues = AppendedBy(calls)

\* A run over a list that names a folder twice completed with two issues.
C18_Witness ==
    /\ JustCompleted
    /\ Len(m_duplicateIssues) >= 2
    /\ \E i, j \in 1..Len(lastDone.list) : i < j /\ lastDone.list[i] = lastDone.list[j]

\* C20: a pair in which a folder has no files, an empty folder or the empty
\* content a missing folder degrades to, produces no issue in either call
\* order, whatever the other folder holds.
C20_EmptyFolderNoIssue ==
    (pc \in { "c_fwd", "c_both" } /\ (ContentA.allFiles = <<>> \/ ContentB.allFiles = <<>>))
        => m_duplicateIssues = <<>>

\* Both orders were classified for the content of a missing folder against a
\* folder with files, and for a folder holding only subfolders against a
\* folder with a file and the same subfolders.
C20_Witness ==
    /\ pc = "c_both"
    /\ \/ ContentA = EmptyContent /\ Len(ContentB.allFiles) >= 2
       \/ /\ ContentA.allFiles = <<>>
          /\ ContentA.allSubfolders /= <<>>
          /\ ContentB.allFiles /= <<>>
          /\ ContentB.allSubfolders = ContentA.allSubfolders

\* Weak fairness of PairStep, written out: the step is enabled exactly when
\* pc = "pairs", where it either calls compareFolders or leaves the loop.
PairStepFair == []<>(pc /= "pairs") \/ []<><<PairStep>>_vars

\* SpecRoots with the run proceeding: performAnalysis is one synchronous call
\* on the GUI thread, and every processEvents() in it returns.
SpecRootsFair ==
    /\ SpecRoots
    /\ WF_vars(CountStep)
    /\ PairStepFair
    /\ WF_vars(FinishStep)
    /\ WF_vars(EmitCompleted)

\* compareFolders was called for every index pair of the list.
AllPairsClassified ==
    /\ Len(projectFolders) >= 2
    /\ 2 * Len(pairLog.calls) = Len(projectFolders) * (Len(projectFolders) - 1)

\* The cache file holds what saveFolderContentCache writes for the cache.
CachePersisted == cacheFile = saveFolderContentCache(m_folderContentCache, m_currentMode)

\* The analysisCompleted signals emitted so far.
Completions == SelectSeq(emitted, LAMBDA e : e.signal = "analysisCompleted")

\* C16: a run started over at least two folders and not cancelled reaches
\* Idle with the running flag cleared; when analysisCompleted is about to be
\* emitted all pairs are classified and the cache is persisted; the signal
\* is emitted once, with issuesFound the size of the result set and mode
\* the mode the run was started with.
C16_RunCompletes ==
    /\ [](pc = "emit" =>
            /\ AllPairsClassified
            /\ CachePersisted
            /\ ~m_analysisRunning
            /\ Completions = <<>>)
    /\ [](JustCompleted =>
            /\ AllPairsClassified
            /\ CachePersisted
            /\ ~m_analysisRunning
            /\ emitted[1].signal = "analysisStarted"
            /\ Completions = << [signal |-> "analysisCompleted",
                                 issuesFound |-> Len(m_duplicateIssues),
                                 mode |-> emitted[1].mode] >>
            /\ m_currentMode = emitted[1].mode)
    /\ (pc = "count" ~> JustCompleted)

\* A Deep run over three folders completed with an issue.
C16_Witness ==
    /\ JustCompleted
    /\ m_currentMode = Deep
    /\ Len(projectFolders) = 3
    /\ m_duplicateIssues /= <<>>
    /\ cacheFile.kind /= "none"

----------------------------------------------------------------------------
(* SpecCancel: runs cancelled by the Refresh button.                        *)
(* The run yields to the event loop in the counting loop, in the pair loop  *)
(* and, when m_totalFilesToAnalyze is 0, after each image file of a scan;   *)
(* at a yield the Refresh button calls refreshAnalysis, which clears the    *)
(* flag and the cache and runs startAnalysis to its end before the yield    *)
(* returns. The Quick and Deep buttons are disabled while a run is on.      *)

\* Most files created while a run is on.
MaxCancelWrites == 2

\* Most image files a scan analyses before the yield that handles Refresh.
MaxYield == 2

\* The index pairs of a list of n entries, in the order of the pair loop.
RECURSIVE IndexPairsFrom(_, _, _)
IndexPairsFrom(i, j, n) ==
    IF i >= n THEN <<>>
    ELSE IF j > n THEN IndexPairsFrom(i + 1, i + 2, n)
    ELSE << << i, j >> >> \o IndexPairsFrom(i, j + 1, n)

IndexPairs(n) == IndexPairsFrom(1, 2, n)

\* What one call of compareFolders, with outcome r, adds to the record acc
\* of a run.
Recorded(acc, folder1, folder2, pair, r) ==
    LET scanned == Scanned(acc.cache, folder1, folder2)
        appended == SubSeq(r.issues, Len(acc.issues) + 1, Len(r.issues))
    IN  [cache |-> r.cache,
         issues |-> r.issues,
         calls |-> Append(acc.calls,
                          [i |-> pair[1], j |-> pair[2], appended |-> appended,
                           scanned |-> scanned]),
         log |-> IF folder1 = folder2 THEN acc.log
                 ELSE Put(acc.log, << folder1, folder2 >>,
                          [category |-> CategoryOf(appended),
                           content1 |-> r.cache[folder1],
                           content2 |-> r.cache[folder2]]),
         filesAnalyzed |->
             acc.filesAnalyzed
             + SumSeq([ k \in 1..Len(scanned) |-> Len(r.cache[scanned[k]].allFiles) ])]

\* One iteration of the pair loop of analyzeFolderPairs with the flag set.
StepPair(acc, list, pair, mode) ==
    Recorded(acc, list[pair[1]], list[pair[2]], pair,
             compareFolders(acc.cache, acc.issues, list[pair[1]], list[pair[2]], mode))

\* The pair loop of analyzeFolderPairs run to its end with the flag set.
RECURSIVE RunPairs(_, _, _, _)
RunPairs(acc, list, pairs, mode) ==
    IF pairs = <<>> THEN acc
    ELSE RunPairs(StepPair(acc, list, Head(pairs), mode), list, Tail(pairs), mode)

\* What a run over list that completed with record r leaves.
CompletedRun(list, r) ==
    [completed |-> TRUE, cache |-> r.cache, issues |-> r.issues,
     calls |-> r.calls, log |-> r.log, list |-> list,
     filesAnalyzed |-> r.filesAnalyzed,
     total |-> SumSeq([ k \in 1..Len(list) |-> countFilesInFolder(list[k]) ])]

\* startAnalysis(mode) on an empty cache, run to its end with no event
\* handled inside it.
StartOnEmptyCache(list, mode) ==
    IF Len(list) < 2
    THEN [completed |-> FALSE, cache |-> <<>>, issues |-> <<>>]
    ELSE CompletedRun(list,
                      RunPairs([cache |-> <<>>, issues |-> <<>>, calls |-> <<>>,
                                log |-> <<>>, filesAnalyzed |-> 0],
                               list, IndexPairs(Len(list)), mode))

\* refreshAnalysis from line 214 on: the cache is cleared and
\* startAnalysis(mode) runs.
NestedRun(mode) == StartOnEmptyCache(getProjectFolders, mode)

\* What the nested run n leaves besides the cache and the result set, which
\* the caller assigns first.
RefreshEffects(n) ==
    LET file == saveFolderContentCache(n.cache, m_currentMode)
        done == [kind |-> "run", mode |-> m_currentMode, run |-> runNo + 1,
                 fsStart |-> fsOps, fsEnd |-> fsOps, log |-> n.log, calls |-> n.calls,
                 list |-> n.list, issues |-> n.issues, saved |-> n.cache, file |-> file]
    IN  /\ runNo' = runNo + 1
        /\ m_analysisRunning' = FALSE
        /\ cacheFile' = IF n.completed THEN file ELSE cacheFile
        /\ emitted' =
              IF n.completed
              THEN << [signal |-> "analysisStarted", totalFolders |-> Len(n.list),
                       mode |-> m_currentMode],
                      [signal |-> "analysisCompleted", issuesFound |-> Len(n.issues),
                       mode |-> m_currentMode] >>
              ELSE emitted
        /\ lastDone' = IF n.completed THEN done ELSE lastDone
        /\ quickRun' = IF n.completed /\ m_currentMode = Quick THEN done ELSE quickRun
        /\ m_totalFilesToAnalyze' = IF n.completed THEN n.total ELSE m_totalFilesToAnalyze
        /\ m_filesAnalyzed' = IF n.completed THEN n.filesAnalyzed ELSE m_filesAnalyzed
        /\ cacheMeta' = [ f \in DOMAIN m_folderContentCache' |->
                            [run |-> runNo + 1, modTime |-> lastModified(f)] ]
        /\ UNCHANGED << fsVars, m_currentMode, projectFolders, pairLog >>

\* The run is at a processEvents() that handles user input: line 446 of the
\* counting loop or line 511 of the pair loop.
AtYield ==
    \/ pc = "count" /\ loopI > 1
    \/ pc = "pairs"
    \/ pc = "finish"

\* The cancelled run resumes in the state the nested run n leaves.
ResumeAfter(n) ==
    /\ m_folderContentCache' = n.cache
    /\ m_duplicateIssues' = n.issues
    /\ RefreshEffects(n)

\* Refresh is pressed at a yield of the counting loop or of the pair loop:
\* refreshAnalysis, lines 200-217, with the run it starts.
RefreshDuringRun ==
    /\ AtYield
    /\ m_analysisRunning
    /\ runNo < MaxRuns
    /\ ResumeAfter(NestedRun(m_currentMode))
    /\ probe' = [kind |-> "refresh"]
    /\ UNCHANGED << pc, loopI, loopJ, lastCompare >>

\* The file loop and the subfolder loop of scanFolderRecursive with the flag
\* cleared once st.left more image files were analysed: every later test of
\* the flag (lines 639 and 671) returns.
ScanFileUntil(folderPath, basePath, fileName, st, mode) ==
    IF st.left = 0 THEN st
    ELSE IF toLower(fsFiles[folderPath][fileName].suffix) \in SUPPORTED_EXTENSIONS
    THEN [content |-> ScanFile(folderPath, basePath, fileName, st.content, mode),
          left |-> st.left - 1]
    ELSE st

RECURSIVE ScanFileListUntil(_, _, _, _, _)
ScanFileListUntil(folderPath, basePath, names, st, mode) ==
    IF names = <<>> THEN st
    ELSE ScanFileListUntil(folderPath, basePath, Tail(names),
                           ScanFileUntil(folderPath, basePath, Head(names), st, mode), mode)

RECURSIVE scanFolderRecursiveUntil(_, _, _, _)
RECURSIVE ScanSubDirListUntil(_, _, _, _, _)
ScanSubDirListUntil(folderPath, basePath, names, st, mode) ==
    IF names = <<>> \/ st.left = 0 THEN st
    ELSE LET subDirPath == folderPath \o <<Head(names)>>
             withDir == [st EXCEPT
                           !.content.allSubfolders =
                               Append(@, getRelativePath(subDirPath, basePath))]
         IN  ScanSubDirListUntil(folderPath, basePath, Tail(names),
                                 scanFolderRecursiveUntil(subDirPath, basePath, withDir, mode),
                                 mode)

scanFolderRecursiveUntil(folderPath, basePath, st, mode) ==
    IF ~DirExists(folderPath) THEN st
    ELSE ScanSubDirListUntil(folderPath, basePath, SubDirNames(folderPath),
                             ScanFileListUntil(folderPath, basePath, FileNames(folderPath),
                                               st, mode),
                             mode)

\* analyzeFolderContent with the flag cleared at the yield after the k-th
\* image file.
analyzeFolderContentUntil(folderPath, k, mode) ==
    scanFolderRecursiveUntil(folderPath, folderPath, [content |-> EmptyContent, left |-> k],
                             mode)

\* The other operand once the flag is cleared: a key the cache holds is
\* read; for a missing one analyzeFolderContent returns at its first test of
\* the flag, or operator[] inserts a default-constructed FolderContent, and
\* the cache holds an empty content either way.
Fetch(cache, folder) ==
    IF folder \in DOMAIN cache THEN cache ELSE Put(cache, folder, EmptyContent)

\* compareFolders resumed after the nested run n: the scan of folder returns
\* the content partial (line 639 or 671), compareFolders stores it (line 524
\* or 527) and classifies the pair (lines 531-589).
ResumeCompare(n, folder1, folder2, folder, partial, cache) ==
    /\ m_folderContentCache' = cache
    /\ m_duplicateIssues' =
          n.issues \o ClassifyPair(folder1, folder2, cache[folder1], cache[folder2],
                                   m_currentMode)
    /\ lastCompare' =
          [kind |-> "interrupted", folder |-> folder,
           folder1 |-> folder1, folder2 |-> folder2,
           mode |-> m_currentMode, partial |-> partial,
           complete |-> partial = analyzeFolderContent(folder, m_currentMode),
           classified |-> << cache[folder1], cache[folder2] >>,
           appended |-> SubSeq(m_duplicateIssues', Len(n.issues) + 1,
                               Len(m_duplicateIssues'))]
    /\ RefreshEffects(n)

\* The scan of folder yielded st.content when the flag was cleared.
Interrupted(n, folder1, folder2, folder, st) ==
    /\ st.left = 0
    /\ ResumeCompare(n, folder1, folder2, folder, st.content,
                     Fetch(Fetch(Put(n.cache, folder, st.content), folder1), folder2))

\* Refresh is pressed while compareFolders scans an operand: with
\* m_totalFilesToAnalyze = 0, updateFileProgress yields at line 1384 after
\* each image file. refreshAnalysis runs as in RefreshDuringRun; then the
\* scan returns what it had built, compareFolders goes on with it, and the
\* pair loop reaches its processEvents().
ScanYieldRefresh ==
    /\ pc = "pairs"
    /\ m_analysisRunning
    /\ m_totalFilesToAnalyze = 0
    /\ runNo < MaxRuns
    /\ LET list == IF loopI = 0 THEN getProjectFolders ELSE projectFolders
           i == IF loopI = 0 THEN 1 ELSE loopI
           j == IF loopI = 0 THEN 2 ELSE loopJ
       IN  /\ j <= Len(list)
           /\ list[i] /= list[j]
           /\ \E which \in 1..2, k \in 1..MaxYield :
                 /\ list[IF which = 1 THEN i ELSE j] \notin DOMAIN m_folderContentCache
                 /\ Interrupted(NestedRun(m_currentMode), list[i], list[j],
                                list[IF which = 1 THEN i ELSE j],
                                analyzeFolderContentUntil(list[IF which = 1 THEN i ELSE j],
                                                          k, m_currentMode))
           /\ IF j < Len(list)
              THEN loopI' = i /\ loopJ' = j + 1 /\ pc' = "pairs"
              ELSE IF i + 2 <= Len(list)
              THEN loopI' = i + 1 /\ loopJ' = i + 2 /\ pc' = "pairs"
              ELSE loopI' = i /\ loopJ' = j /\ pc' = "finish"
    /\ probe' = [kind |-> "refresh"]

\* A file is created in d while a run is on.
WriteFileDuringRun(d, n, file) ==
    /\ pc \in { "count", "pairs" }
    /\ fsOps < MaxCancelWrites
    /\ DirExists(d)
    /\ n \notin DOMAIN fsFiles[d]
    /\ fsFiles' = [fsFiles EXCEPT ![d] = Put(@, n, file)]
    /\ fsModTime' = [fsModTime EXCEPT ![d] = now]
    /\ fsOps' = fsOps + 1
    /\ probe' = NoProbe
    /\ UNCHANGED << fsExists, now, m_projectFolders, analyzerVars >>

CancelInit ==
    /\ fsExists = [d \in Dirs |-> d \in BaseDirs]
    /\ \E files11 \in { <<>>, <<FileX>> }, files2 \in { <<>>, <<FileX>> } :
          fsFiles = (<<1>> :> <<>> @@ <<1, 1>> :> files11 @@ <<2>> :> files2
                     @@ [d \in DeepDirs |-> <<>>])
    /\ fsModTime = [d \in Dirs |-> 0]
    /\ now = 0
    /\ fsOps = 0
    /\ cacheFile = NoFile
    /\ m_projectFolders = TopLevelFolders
    /\ emitted = <<>>
    /\ m_currentMode = Quick
    /\ m_analysisRunning = FALSE
    /\ m_folderContentCache = loadFolderContentCache(cacheFile)
    /\ m_duplicateIssues = <<>>
    /\ m_totalFilesToAnalyze = 0
    /\ m_filesAnalyzed = 0
    /\ pc = "idle"
    /\ projectFolders = <<>>
    /\ loopI = 0
    /\ loopJ = 0
    /\ probe = [kind |-> "load"]
    /\ cacheMeta = LoadedMeta(cacheFile, m_folderContentCache)
    /\ lastCompare = NoCompare
    /\ runNo = 0
    /\ pairLog = NoRun
    /\ quickRun = NoRun
    /\ lastDone = NoRun

CancelNext ==
    \/ \E d \in Dirs, n \in FileNameSet : WriteFileDuringRun(d, n, FileX)
    \/ \E mode \in Modes : StartAnalysis(mode)
    \/ RefreshAnalysis
    \/ CountStep
    \/ PairStep
    \/ FinishStep
    \/ EmitCompleted
    \/ RefreshDuringRun
    \/ ScanYieldRefresh

SpecCancel == CancelInit /\ [][CancelNext]_vars

----------------------------------------------------------------------------
(* Properties of cancelled runs *)

\* The state right after a cancelled run reset and returned.
CancelledReturned == probe.kind = "cancelled" /\ pc = "idle"

\* The result set of the last run that was started, if it completed.
LastStartedIssues ==
    IF lastDone.kind = "run" /\ lastDone.run = runNo THEN lastDone.issues ELSE <<>>

\* C13: when a cancelled run has returned to Idle, the result set holds no
\* issue that run appended: it holds what the run started by the refresh
\* produced and nothing else.
C13_CancelledRunLeavesNoIssue ==
    CancelledReturned => m_duplicateIssues = LastStartedIssues

\* The cache file the last completed run wrote.
LastPersisted == IF lastDone.kind = "run" THEN lastDone.file ELSE NoFile

\* C14: only a run that passed every test of the flag writes the cache file:
\* outside the completion of a run, and so after every cancelled run, the
\* file is the one the last completed run wrote.
C14_CancelledRunKeepsFile ==
    pc /= "emit" => cacheFile = LastPersisted

\* A run cancelled inside a scan returned: the cache differs from what the
\* last completed run saved, and the file is that run's.
C14_Witness ==
    /\ CancelledReturned
    /\ lastDone.kind = "run"
    /\ lastCompare.kind = "interrupted"
    /\ m_folderContentCache /= lastDone.saved
    /\ cacheFile = lastDone.file

\* A scan was cut short by a cancellation and returned less than the folder holds.
PartialScan == lastCompare.kind = "interrupted" /\ ~lastCompare.complete

\* C15: the content a cancelled scan had built is dropped: the cache does
\* not hold it and no pair was classified with it.
C15_PartialContentDiscarded ==
    PartialScan =>
        /\ ~(/\ lastCompare.folder \in DOMAIN m_folderContentCache
             /\ m_folderContentCache[lastCompare.folder] = lastCompare.partial)
        /\ lastCompare.partial \notin Range(lastCompare.classified)

\* The size fields of the signatures of a content, in file order.
FileSizes(c) == [ k \in 1..Len(c.allFiles) |-> ValueOf(c, c.allFiles[k]).fileSize ]

\* The three conditions on a FolderContent.
WellFormed(c) ==
    /\ NoDup(c.allFiles)
    /\ DOMAIN c.fileInfo = Range(c.allFiles)
    /\ c.totalSize = SumSeq(FileSizes(c))

\* C19: every FolderContent in the cache has no repeated path in allFiles,
\* signatures for exactly the paths of allFiles, and totalSize the sum of
\* their sizes.
C19_CachedContentWellFormed ==
    \A f \in DOMAIN m_folderContentCache : WellFormed(m_folderContentCache[f])

\* The cache holds the content of a scan that a cancellation cut short, with
\* a file in it, next to contents of completed scans.
C19_Witness ==
    /\ PartialScan
    /\ lastCompare.folder \in DOMAIN m_folderContentCache
    /\ m_folderContentCache[lastCompare.folder] = lastCompare.partial
    /\ lastCompare.partial.allFiles /= <<>>
    /\ \E g \in DOMAIN m_folderContentCache \ { lastCompare.folder } :
          m_folderContentCache[g].allFiles /= <<>>

----------------------------------------------------------------------------
(* Properties of refreshed runs and of the phases of a run *)

\* A run that refreshAnalysis started is on, or has just completed.
InRefreshedRun ==
    /\ pairLog.kind = "run"
    /\ pairLog.origin = "refresh"
    /\ pc \in { "count", "pairs", "finish", "emit" } \/ JustCompleted

\* C21: a run started by refreshAnalysis starts on an empty cache; every
\* entry the cache holds during the run was scanned by that run, and no
\* compareFolders call of the run is served an entry of an earlier run or of
\* the load.
C21_RefreshUsesNewScans ==
    InRefreshedRun =>
        /\ (pc = "count" /\ loopI = 1) => DOMAIN m_folderContentCache = {}
        /\ \A f \in DOMAIN m_folderContentCache : cacheMeta[f].run = runNo
        /\ pairLog.calls /= <<>> =>
              /\ lastCompare.kind = "compare"
              /\ lastCompare.reused = {}
              /\ cacheMeta[lastCompare.folder1].run = runNo
              /\ cacheMeta[lastCompare.folder2].run = runNo

\* A Deep run started by a refresh completed after a Quick run had cached a
\* folder with files: the cache now holds another content for that folder.
C21_Witness ==
    /\ InRefreshedRun
    /\ JustCompleted
    /\ m_currentMode = Deep
    /\ quickRun.kind = "run"
    /\ \E f \in DOMAIN quickRun.saved \cap DOMAIN m_folderContentCache :
          /\ quickRun.saved[f].allFiles /= <<>>
          /\ m_folderContentCache[f] /= quickRun.saved[f]
          /\ FullyHashed(m_folderContentCache[f])

\* C22: once the first folder pair of a run has been classified, no folder
\* is scanned any more in that run: every compareFolders call after the
\* first finds both operands in the cache.
C22_NoScanAfterFirstCompare ==
    pairLog.kind = "run" =>
        \A k \in 2..Len(pairLog.calls) : pairLog.calls[k].scanned = <<>>

----------------------------------------------------------------------------
(* SpecScan: analyzeFolderContent applied to directory trees three levels   *)
(* deep, with upper-case suffixes, files that are no images, and hidden     *)
(* files and folders.                                                       *)

\* What a directory of a scanned tree can hold.
ScanFileSets ==
    { <<>>, <<FileX>>, <<FileY>>, <<FileT>>, <<FileX, FileY>>, (HiddenName :> FileX) }

\* The roots analyzeFolderContent is called on.
ScanRoots == { <<1>>, <<1, 1>> }

ScanInit ==
    /\ \E below \in SUBSET { <<1, 1>>, <<1, 1, 1>>, <<1, HiddenName>> } :
          /\ <<1, 1, 1>> \in below => <<1, 1>> \in below
          /\ fsExists = [d \in Dirs |-> d \in { <<1>>, <<2>> } \cup below]
    /\ fsFiles \in [Dirs -> ScanFileSets]
    /\ \A d \in Dirs : (~fsExists[d] \/ d = <<2>>) => fsFiles[d] = <<>>
    /\ fsModTime = [d \in Dirs |-> 0]
    /\ now = 0
    /\ fsOps = 0
    /\ cacheFile = NoFile
    /\ m_projectFolders = TopLevelFolders
    /\ emitted = <<>>
    /\ m_currentMode \in Modes
    /\ m_analysisRunning = TRUE
    /\ m_folderContentCache = <<>>
    /\ m_duplicateIssues = <<>>
    /\ m_totalFilesToAnalyze = 0
    /\ m_filesAnalyzed = 0
    /\ pc = "scan"
    /\ projectFolders = <<>>
    /\ loopI = 0
    /\ loopJ = 0
    /\ probe = NoProbe
    /\ cacheMeta = <<>>
    /\ lastCompare = NoCompare
    /\ runNo = 0
    /\ pairLog = NoRun
    /\ quickRun = NoRun
    /\ lastDone = NoRun

\* m_folderContentCache[folderPath] = analyzeFolderContent(folderPath), with
\* the flag set throughout.
ScanRoot(folderPath) ==
    /\ pc = "scan"
    /\ m_analysisRunning
    /\ folderPath \notin DOMAIN m_folderContentCache
    /\ m_folderContentCache' =
          Put(m_folderContentCache, folderPath,
              analyzeFolderContent(folderPath, m_currentMode))
    /\ m_filesAnalyzed' =
          m_filesAnalyzed + Len(m_folderContentCache'[folderPath].allFiles)
    /\ probe' = [kind |-> "scan", folder |-> folderPath]
    /\ UNCHANGED << fsVars, cacheFile, emitted, m_duplicateIssues, m_currentMode,
                    m_analysisRunning, m_totalFilesToAnalyze, pc, projectFolders,
                    loopI, loopJ, cacheMeta, lastCompare, runNo, pairLog, quickRun,
                    lastDone >>

ScanNext == \E folderPath \in ScanRoots : ScanRoot(folderPath)

SpecScan == ScanInit /\ [][ScanNext]_vars

\* The path d continues the path R.
Extends(d, R) == Len(d) >= Len(R) /\ SubSeq(d, 1, Len(R)) = R

\* The existing directories at any depth under R, R included.
TreeOf(R) ==
    { d \in Dirs : Extends(d, R) /\ \A k \in Len(R)..Len(d) : DirExists(SubSeq(d, 1, k)) }

\* The path p with the leading R taken off.
RelativeTo(p, R) == SubSeq(p, Len(R) + 1, Len(p))

\* The file carries a supported extension, in any letter case.
SupportedFile(file) == toLower(file.suffix) \in SUPPORTED_EXTENSIONS

\* Every supported file anywhere under R, as a path relative to R.
FilesUnder(R) ==
    UNION { { RelativeTo(d \o <<n>>, R) :
                n \in { m \in DOMAIN fsFiles[d] : SupportedFile(fsFiles[d][m]) } } :
            d \in TreeOf(R) }

\* Every directory anywhere under R, as a path relative to R.
FoldersUnder(R) == { RelativeTo(d, R) : d \in TreeOf(R) \ { R } }

\* No name of the path is a hidden one.
Visible(p) == \A k \in 1..Len(p) : p[k] /= HiddenName

\* The state of SpecScan after a scan.
ScanDone == pc = "scan" /\ probe.kind = "scan"

\* C23, as stated: an uncancelled scan of R lists in allFiles exactly the
\* supported files anywhere under R and in allSubfolders exactly the
\* directories at any depth under R, each once, relative to R.
C23_ScanListsWholeTree ==
    ScanDone =>
        \A R \in DOMAIN m_folderContentCache :
            /\ Range(m_folderContentCache[R].allFiles) = FilesUnder(R)
            /\ NoDup(m_folderContentCache[R].allFiles)
            /\ Range(m_folderContentCache[R].allSubfolders) = FoldersUnder(R)
            /\ NoDup(m_folderContentCache[R].allSubfolders)

\* C23, amended: the same for the entries a directory listing shows: the
\* files and directories that are not hidden and lie in no hidden directory
\* under R.
C23_ScanListsVisibleTree ==
    ScanDone =>
        \A R \in DOMAIN m_folderContentCache :
            /\ Range(m_folderContentCache[R].allFiles)
                  = { q \in FilesUnder(R) : Visible(q) }
            /\ NoDup(m_folderContentCache[R].allFiles)
            /\ Range(m_folderContentCache[R].allSubfolders)
                  = { q \in FoldersUnder(R) : Visible(q) }
            /\ NoDup(m_folderContentCache[R].allSubfolders)

\* The scan of /1 listed a file on the third level and a file with an
\* upper-case suffix, and left out a file that is no image and a hidden file.
C23_Witness ==
    /\ ScanDone
    /\ <<1>> \in DOMAIN m_folderContentCache
    /\ << 1, 1, 1 >> \in Range(m_folderContentCache[<<1>>].allFiles)
    /\ << 1, 1 >> \in Range(m_folderContentCache[<<1>>].allSubfolders)
    /\ fsFiles[<<1, 1, 1>>] = <<FileY>>
    /\ fsFiles[<<1, 1>>] = <<FileT>>
    /\ fsFiles[<<1>>] = (HiddenName :> FileX)
    /\ Len(m_folderContentCache[<<1>>].allFiles) = 1

----------------------------------------------------------------------------
(* Properties of the work estimate *)

\* The counting loop of the run in progress has ended and the filesystem is
\* as it was when the run started.
CountingDone ==
    /\ pairLog.kind = "run"
    /\ pairLog.fsStart = fsOps
    /\ pc \in { "pairs", "finish", "emit" } \/ JustCompleted

\* C24: in an uncancelled run over an unchanging filesystem the number of
\* files fingerprinted never exceeds the estimate of the counting loop and
\* equals it when the run completes.
C24_EstimateMatchesWork ==
    CountingDone =>
        /\ m_filesAnalyzed <= m_totalFilesToAnalyze
        /\ JustCompleted => m_filesAnalyzed = m_totalFilesToAnalyze

----------------------------------------------------------------------------
(* SpecHash: the byte ranges calculatePartialHash reads, by file size *)

\* static constexpr qint64 PARTIAL_HASH_SIZE
PARTIAL_HASH_SIZE == 16384

\* QFile::read(maxSize) at position pos of a file of fileSize bytes: the
\* bytes [from, to) it returns.
ReadChunk(pos, maxSize, fileSize) == [from |-> pos, to |-> Min(pos + maxSize, fileSize)]

\* The chunks read with the second read made for every file above 16 KB.
HashedChunks_LowThreshold(fileSize) ==
    LET firstChunk == ReadChunk(0, PARTIAL_HASH_SIZE, fileSize)
    IN  IF fileSize > PARTIAL_HASH_SIZE
        THEN << firstChunk,
                ReadChunk(fileSize - PARTIAL_HASH_SIZE, PARTIAL_HASH_SIZE, fileSize) >>
        ELSE << firstChunk >>

\* calculatePartialHash, lines 729-741: the chunks added to the digest, in order.
HashedChunks(fileSize) ==
    LET firstChunk == ReadChunk(0, PARTIAL_HASH_SIZE, fileSize)
    IN  IF fileSize > PARTIAL_HASH_SIZE * 2
        THEN << firstChunk,
                ReadChunk(fileSize - PARTIAL_HASH_SIZE, PARTIAL_HASH_SIZE, fileSize) >>
        ELSE << firstChunk >>

\* How far a file size of the model lies from a multiple of PARTIAL_HASH_SIZE.
HashWindow == 6

\* File sizes around 0, 16 KB, 32 KB, 48 KB and 1 GB.
HashSizes ==
    { sz \in { k * PARTIAL_HASH_SIZE + d : k \in { 0, 1, 2, 3, 65536 },
                                          d \in (0 - HashWindow)..HashWindow } : sz >= 0 }

HashInit ==
    /\ fsExists = [d \in Dirs |-> d \in BaseDirs]
    /\ \E sz \in HashSizes :
          fsFiles = [d \in Dirs |-> IF d = <<2>> THEN << MkFile("jpg", sz, 1, 1, 1) >>
                                    ELSE <<>>]
    /\ fsModTime = [d \in Dirs |-> 0]
    /\ now = 0
    /\ fsOps = 0
    /\ cacheFile = NoFile
    /\ m_projectFolders = TopLevelFolders
    /\ emitted = <<>>
    /\ m_currentMode = Deep
    /\ m_analysisRunning = TRUE
    /\ m_folderContentCache = <<>>
    /\ m_duplicateIssues = <<>>
    /\ m_totalFilesToAnalyze = 0
    /\ m_filesAnalyzed = 0
    /\ pc = "hash"
    /\ projectFolders = <<>>
    /\ loopI = 0
    /\ loopJ = 0
    /\ probe = NoProbe
    /\ cacheMeta = <<>>
    /\ lastCompare = NoCompare
    /\ runNo = 0
    /\ pairLog = NoRun
    /\ quickRun = NoRun
    /\ lastDone = NoRun

\* calculatePartialHash(filePath) on the file name of folder d.
HashFile(d, name) ==
    /\ pc = "hash"
    /\ probe = NoProbe
    /\ name \in DOMAIN fsFiles[d]
    /\ probe' = [kind |-> "hash", fileSize |-> fsFiles[d][name].size,
                 chunks |-> HashedChunks(fsFiles[d][name].size)]
    /\ UNCHANGED << fsVars, analyzerVars >>

HashNext == \E d \in BaseDirs, name \in FileNameSet : HashFile(d, name)

SpecHash == HashInit /\ [][HashNext]_vars

\* Number of bytes of a chunk.
ChunkBytes(c) == c.to - c.from

\* C25: for a file of s bytes the digest covers [0, min(s, 16384)) and, if
\* and only if s > 32768, then also [s - 16384, s); the second range begins
\* at or after the end of the first, and at most 32768 bytes are covered.
C25_HashedRanges ==
    probe.kind = "hash" =>
        LET sz == probe.fileSize
            chunks == probe.chunks
        IN  /\ Len(chunks) \in { 1, 2 }
            /\ chunks[1] = [from |-> 0, to |-> Min(sz, 16384)]
            /\ Len(chunks) = 2 <=> sz > 32768
            /\ Len(chunks) = 2 =>
                  /\ chunks[2] = [from |-> sz - 16384, to |-> sz]
                  /\ chunks[1].to <= chunks[2].from
            /\ SumSeq([ k \in 1..Len(chunks) |-> ChunkBytes(chunks[k]) ]) <= 32768

\* Hashed: a file of 32769 bytes, the smallest with two ranges.
C25_Witness ==
    /\ probe.kind = "hash"
    /\ probe.fileSize = 32769
    /\ probe.chunks = << [from |-> 0, to |-> 16384], [from |-> 16385, to |-> 32769] >>

----------------------------------------------------------------------------
(* SpecWaste: wastedSpace of a PartialDuplicate issue for large folders.    *)
(* qRound(double) returns int. The widths are scaled: an int has IntBits    *)
(* bits in place of 32; a qint64 holds every size of the model.             *)

\* Bits of an int.
IntBits == 8

INT_MAX == 2 ^ (IntBits - 1) - 1

INT_MIN == 0 - 2 ^ (IntBits - 1)

\* v reduced to the bits of an int, two's complement.
WrapInt(v) == ((v - INT_MIN) % (2 ^ IntBits)) + INT_MIN

\* int(d) for a double of integral value v: v if an int holds it. For any
\* other v the conversion is undefined; builds leave the "integer
\* indefinite" value INT_MIN (x86 cvttsd2si), saturate, or keep the low bits.
IntOutcomes(v) ==
    IF INT_MIN <= v /\ v <= INT_MAX THEN { v } ELSE { INT_MIN, INT_MAX, WrapInt(v) }

\* File sizes up to the first an int does not hold.
WasteSizes == { 1, (INT_MAX + 1) \div 4, (INT_MAX + 1) \div 2, INT_MAX + 1 }

\* Three files, each of any of the sizes: pairs with equal key sets and
\* different multiplicities are PartialDuplicates of similarity 1.
WasteContents ==
    { MkContent(<< <<1>>, <<2>>, <<3>> >>, <<>>, info) :
        info \in [{ <<1>>, <<2>>, <<3>> } -> { MkFileInfo(sz, 1, 1, 1) : sz \in WasteSizes }] }

WasteInit ==
    /\ \E cA \in WasteContents, cB \in WasteContents :
          m_folderContentCache = (FolderA :> cA @@ FolderB :> cB)
    /\ m_currentMode = Quick
    /\ m_duplicateIssues = <<>>
    /\ pc = "w_start"
    /\ probe = NoProbe
    /\ lastCompare = NoCompare
    /\ fsExists = [d \in Dirs |-> d \in BaseDirs]
    /\ fsFiles = [d \in Dirs |-> <<>>]
    /\ fsModTime = [d \in Dirs |-> 0]
    /\ now = 0
    /\ fsOps = 0
    /\ m_projectFolders = TopLevelFolders
    /\ emitted = <<>>
    /\ cacheFile = NoFile
    /\ m_analysisRunning = TRUE
    /\ m_totalFilesToAnalyze = 0
    /\ m_filesAnalyzed = 0
    /\ projectFolders = <<>>
    /\ loopI = 0
    /\ loopJ = 0
    /\ cacheMeta = <<>>
    /\ runNo = 0
    /\ pairLog = NoRun
    /\ quickRun = NoRun
    /\ lastDone = NoRun

\* The issue as compareFolders stores it: for a PartialDuplicate,
\* wastedSpace is the int qRound returned (line 583); the exact rules assign
\* the qint64 minimum itself.
StoredIssues(appended) ==
    IF appended = <<>> THEN { <<>> }
    ELSE IF appended[1].type /= PartialDuplicate THEN { appended }
    ELSE { << [appended[1] EXCEPT !.wastedSpace = w] >> :
             w \in IntOutcomes(appended[1].wastedSpace) }

\* compareFolders(FolderA, FolderB) on two cached contents.
CompareWide ==
    /\ pc = "w_start"
    /\ m_duplicateIssues' \in
          StoredIssues(ClassifyPair(FolderA, FolderB, m_folderContentCache[FolderA],
                                    m_folderContentCache[FolderB], m_currentMode))
    /\ lastCompare' = [kind |-> "compare", folder1 |-> FolderA, folder2 |-> FolderB,
                       mode |-> m_currentMode, appended |-> Len(m_duplicateIssues')]
    /\ pc' = "w_done"
    /\ UNCHANGED << m_folderContentCache, probe, classifyFrame >>

SpecWaste == WasteInit /\ [][CompareWide]_vars

\* C26: the wastedSpace of a PartialDuplicate issue is
\* round(similarity * min(totalSize(A), totalSize(B))), and lies between 0
\* and that minimum, also for totals an int does not hold.
C26_WastedSpaceOfPartial ==
    (pc = "w_done" /\ Reported(PartialDuplicate)) =>
        LET least == Min(ContentA.totalSize, ContentB.totalSize)
            issue == m_duplicateIssues[1]
        IN  /\ issue.wastedSpace
                  = SpecRound(issue.similarity.num, issue.similarity.den, least)
            /\ 0 <= issue.wastedSpace
            /\ issue.wastedSpace <= least

----------------------------------------------------------------------------
(* Properties of the modification time saved with a cache entry *)

\* The cache file is the one the last completed run saved from the cache
\* the analyzer still holds.
FileOfCache ==
    /\ lastDone.kind = "run"
    /\ lastDone.file = cacheFile
    /\ lastDone.saved = m_folderContentCache

\* A new analyzer is constructed and loads the cache file.
Reloads == pc = "idle" /\ probe.kind /= "load" /\ probe'.kind = "load"

\* C27: across save and a later load, an entry whose folder was modified
\* after the scan that produced the entry, by more than the tolerance, is
\* rejected: every entry a load keeps has a folder whose modification time
\* the time of that scan accepts.
C27_LoadRejectsModifiedSinceScan ==
    [][ (Reloads /\ FileOfCache) =>
          \A f \in DOMAIN m_folderContentCache' :
              cacheMeta[f].run > 0 =>
                  ModTimeAccepted(lastModified(f), cacheMeta[f].modTime) ]_vars

----------------------------------------------------------------------------
(* Properties of a run restarted from inside a running analysis *)

\* The run started last, from inside the run that was cancelled, completed.
NestedCompleted == lastDone.kind = "run" /\ lastDone.run = runNo

\* C28: when a refresh handled at a yield of a running analysis started a
\* run that completed, the interrupted run, once it returned, has appended
\* no issue and overwritten no cache entry: the result set and the cache are
\* those of the nested run, and the analyzer is Idle.
C28_OuterRunLeavesNestedResult ==
    (CancelledReturned /\ NestedCompleted) =>
        /\ m_duplicateIssues = lastDone.issues
        /\ m_folderContentCache = lastDone.saved
        /\ ~m_analysisRunning

----------------------------------------------------------------------------
(* Properties of the folders an issue pairs *)

\* One of the two folders lies, at any depth, inside the other.
Nested(folder1, folder2) ==
    folder1 /= folder2 /\ (Extends(folder1, folder2) \/ Extends(folder2, folder1))

\* C29: no issue of the result set pairs a folder with one of its own
\* descendant folders, whose files are the folder's own files.
C29_NoIssueWithDescendant ==
    \A k \in 1..Len(m_duplicateIssues) :
        ~Nested(m_duplicateIssues[k].primaryFolder, m_duplicateIssues[k].duplicateFolder)

----------------------------------------------------------------------------
(* SpecModes: two folders of files on disk, scanned and classified in Deep  *)
(* mode and then in Quick mode.                                             *)

\* Largest number of files in a folder.
MaxModeFiles == 10

\* The two folders, neither inside the other.
ModeA == <<1, 1>>
ModeB == <<2>>

\* How the files of ModeB relate to the files of ModeA.
ModeVariants == { "same", "bytes", "resized", "renamed" }

\* File k of a folder: the files below MaxModeFiles are alike in size and
\* dimensions and differ in content; the last has another size. In ModeB
\* the files are the same, or have other content, or have the same hashed
\* window and another size.
ModeFile(k, variant) ==
    LET size == IF k < MaxModeFiles THEN 1 ELSE 2
    IN  CASE variant = "bytes" -> MkFile("jpg", size, 1, 1, k + MaxModeFiles)
          [] variant = "resized" -> MkFile("jpg", size + 2, 1, 1, k)
          [] OTHER -> MkFile("jpg", size, 1, 1, k)

\* Files 1..n, under other names for "renamed".
ModeFiles(n, variant) ==
    LET shift == IF variant = "renamed" THEN MaxModeFiles ELSE 0
    IN  [ name \in { k + shift : k \in 1..n } |-> ModeFile(name - shift, variant) ]

ModesInit ==
    /\ fsExists = [d \in Dirs |-> d \in BaseDirs]
    /\ \E n \in 0..MaxModeFiles, m \in 0..MaxModeFiles, variant \in ModeVariants :
          fsFiles = [d \in Dirs |->
                       IF d = ModeA THEN ModeFiles(n, "same")
                       ELSE IF d = ModeB THEN ModeFiles(m, variant)
                       ELSE <<>>]
    /\ fsModTime = [d \in Dirs |-> 0]
    /\ now = 0
    /\ fsOps = 0
    /\ cacheFile = NoFile
    /\ m_projectFolders = TopLevelFolders
    /\ emitted = <<>>
    /\ m_currentMode = Deep
    /\ m_analysisRunning = TRUE
    /\ m_folderContentCache = <<>>
    /\ m_duplicateIssues = <<>>
    /\ m_totalFilesToAnalyze = 0
    /\ m_filesAnalyzed = 0
    /\ pc = "m_deep"
    /\ projectFolders = <<>>
    /\ loopI = 0
    /\ loopJ = 0
    /\ probe = NoProbe
    /\ cacheMeta = <<>>
    /\ lastCompare = NoCompare
    /\ runNo = 0
    /\ pairLog = NoRun
    /\ quickRun = NoRun
    /\ lastDone = NoRun

modesFrame == << fsVars, cacheFile, emitted, m_analysisRunning, m_totalFilesToAnalyze,
                 m_filesAnalyzed, projectFolders, loopI, loopJ, cacheMeta, lastCompare,
                 runNo, pairLog, quickRun, lastDone >>

\* compareFolders(ModeA, ModeB) of a Deep run on an empty cache: both folders
\* are scanned with their partial hashes.
CompareDeep ==
    /\ pc = "m_deep"
    /\ LET r == compareFolders(m_folderContentCache, m_duplicateIssues,
                               ModeA, ModeB, m_currentMode)
       IN  /\ m_folderContentCache' = r.cache
           /\ m_duplicateIssues' = r.issues
           /\ probe' = [kind |-> "deep", deep |-> CategoryOf(r.issues)]
    /\ pc' = "m_quick"
    /\ UNCHANGED << m_currentMode, modesFrame >>

\* compareFolders(ModeA, ModeB) of a Quick run: startAnalysis(Quick) clears
\* the result set; the cache is the one the Deep run left, or an empty one
\* (fresh), and then both folders are scanned in Quick mode.
CompareQuick(fresh) ==
    /\ pc = "m_quick"
    /\ m_currentMode' = Quick
    /\ LET r == compareFolders(IF fresh THEN <<>> ELSE m_folderContentCache, <<>>,
                               ModeA, ModeB, Quick)
       IN  /\ m_folderContentCache' = r.cache
           /\ m_duplicateIssues' = r.issues
           /\ probe' = [kind |-> "modes", deep |-> probe.deep,
                        quick |-> CategoryOf(r.issues), fresh |-> fresh]
    /\ pc' = "m_done"
    /\ UNCHANGED modesFrame

ModesNext == CompareDeep \/ \E fresh \in BOOLEAN : CompareQuick(fresh)

SpecModes == ModesInit /\ [][ModesNext]_vars

\* C30, as stated: whenever the Deep classification of two freshly scanned
\* folders reports an issue, the Quick classification of the same two
\* folders reports an issue of a category at least as strong.
C30_QuickCoversEveryDeepIssue ==
    (probe.kind = "modes" /\ probe.deep /= "none") =>
        /\ probe.quick /= "none"
        /\ Rank(probe.quick) >= Rank(probe.deep)

\* C30, amended: whenever the Deep classification of two freshly scanned
\* folders reports ExactComplete or ExactFilesOnly, the Quick classification
\* of the same two folders reports an issue of a category at least as
\* strong. A PartialDuplicate of the Deep classification may have no issue
\* in the Quick classification.
C30_QuickCoversDeepExactIssue ==
    (probe.kind = "modes" /\ probe.deep \in { ExactComplete, ExactFilesOnly }) =>
        /\ probe.quick /= "none"
        /\ Rank(probe.quick) >= Rank(probe.deep)

\* Deep reported ExactFilesOnly for folders of several files under different
\* names; Quick, on a fresh scan, reported ExactFilesOnly as well.
C30_Witness ==
    /\ probe.kind = "modes"
    /\ probe.fresh
    /\ probe.deep = ExactFilesOnly
    /\ probe.quick = ExactFilesOnly
    /\ Len(m_folderContentCache[ModeA].allFiles) >= 2

====
